---------------------------- MODULE Spec2Model ----------------------------
(***************************************************************************)
(* A model of InstanceSeparator (projects/_not_working/instance_separator  *)
(* .py): payload discovery, first-fit instance grouping, assembly          *)
(* building and template matching.                                         *)
(*                                                                         *)
(* Python floats are modelled as exact non-negative rationals over         *)
(* arbitrary-precision naturals, so that the 1e-6 and 1e-12 clamps of      *)
(* _geometry_matches keep their value.  Bounding-box sizes, positions and  *)
(* angles of the modelled scenes are whole numbers of scene units.         *)
(***************************************************************************)
EXTENDS Integers, Sequences, FiniteSets, TLC

(***************************************************************************)
(* Exact arithmetic.  A natural is a little-endian sequence of limbs in    *)
(* 0 .. Limb-1 without leading zero limbs (<< >> is 0).                    *)
(***************************************************************************)
Limb == 100 * 100

Max2(a, b) == IF a >= b THEN a ELSE b

Min2(a, b) == IF a <= b THEN a ELSE b

Abs(a) == IF a >= 0 THEN a ELSE -a

RECURSIVE BigNorm(_)
BigNorm(a) ==
    IF a = << >> THEN << >>
    ELSE IF a[Len(a)] = 0 THEN BigNorm(SubSeq(a, 1, Len(a) - 1))
    ELSE a

RECURSIVE BigOfNat(_)
BigOfNat(n) ==
    IF n = 0 THEN << >> ELSE <<n % Limb>> \o BigOfNat(n \div Limb)

RECURSIVE BigAddC(_, _, _)
BigAddC(a, b, carry) ==
    IF a = << >> /\ b = << >>
    THEN (IF carry = 0 THEN << >> ELSE <<carry>>)
    ELSE LET x == IF a = << >> THEN 0 ELSE Head(a)
             y == IF b = << >> THEN 0 ELSE Head(b)
             s == x + y + carry
         IN  <<s % Limb>> \o BigAddC(IF a = << >> THEN << >> ELSE Tail(a),
                                     IF b = << >> THEN << >> ELSE Tail(b),
                                     s \div Limb)

BigAdd(a, b) == BigAddC(a, b, 0)

RECURSIVE BigSubB(_, _, _)
BigSubB(a, b, borrow) ==
    IF a = << >> THEN << >>
    ELSE LET y == IF b = << >> THEN 0 ELSE Head(b)
             s == Head(a) - y - borrow
         IN  <<IF s < 0 THEN s + Limb ELSE s>>
             \o BigSubB(Tail(a), IF b = << >> THEN << >> ELSE Tail(b),
                        IF s < 0 THEN 1 ELSE 0)

\* a - b for a >= b
BigSub(a, b) == BigNorm(BigSubB(a, b, 0))

RECURSIVE BigMulLimb(_, _, _)
BigMulLimb(a, k, carry) ==
    IF a = << >> THEN (IF carry = 0 THEN << >> ELSE <<carry>>)
    ELSE LET s == Head(a) * k + carry
         IN  <<s % Limb>> \o BigMulLimb(Tail(a), k, s \div Limb)

RECURSIVE BigMul(_, _)
BigMul(a, b) ==
    IF a = << >> \/ b = << >> THEN << >>
    ELSE BigAdd(BigMulLimb(a, Head(b), 0),
                LET r == BigMul(a, Tail(b))
                IN  IF r = << >> THEN << >> ELSE <<0>> \o r)

RECURSIVE BigLessFrom(_, _, _)
BigLessFrom(a, b, i) ==
    IF i = 0 THEN FALSE
    ELSE IF a[i] # b[i] THEN a[i] < b[i]
    ELSE BigLessFrom(a, b, i - 1)

BigLess(a, b) ==
    IF Len(a) # Len(b) THEN Len(a) < Len(b) ELSE BigLessFrom(a, b, Len(a))

BigLeq(a, b) == ~BigLess(b, a)

(***************************************************************************)
(* Non-negative rationals num/den, den > 0.  Equal values may have         *)
(* different representations; compare with RatLeq.                         *)
(***************************************************************************)
Rat(n, d) == [num |-> BigOfNat(n), den |-> BigOfNat(d)]

RatLeq(x, y) == BigLeq(BigMul(x.num, y.den), BigMul(y.num, x.den))

RatMax(x, y) == IF RatLeq(y, x) THEN x ELSE y

RatAdd(x, y) ==
    [num |-> BigAdd(BigMul(x.num, y.den), BigMul(y.num, x.den)),
     den |-> BigMul(x.den, y.den)]

\* x - y for x >= y
RatSub(x, y) ==
    [num |-> BigSub(BigMul(x.num, y.den), BigMul(y.num, x.den)),
     den |-> BigMul(x.den, y.den)]

\* abs(x - y)
RatAbsDiff(x, y) == IF RatLeq(y, x) THEN RatSub(x, y) ELSE RatSub(y, x)

RatMul(x, y) == [num |-> BigMul(x.num, y.num), den |-> BigMul(x.den, y.den)]

\* x / y for y > 0
RatDiv(x, y) == [num |-> BigMul(x.num, y.den), den |-> BigMul(x.den, y.num)]


(***************************************************************************)
(* State.                                                                  *)
(***************************************************************************)
VARIABLES
    self,            \* the InstanceSeparator: configuration and registries
    scene,           \* the Maya scene: handle -> node (Geometry Provider)
    nodes,           \* the argument of separate
    selection,       \* the current selection, pm.ls(sl=True)
    pc,              \* position inside separate
    transforms,      \* local of separate
    payloads,        \* local of separate
    groups,          \* local of separate
    assemblies,      \* local of separate
    assembly_groups, \* local of separate
    result,          \* what separate returned (NoResult until it returns)
    mutations,       \* the scene-changing requests issued, with their phase
    flaky,           \* handles whose world matrix read raises at registration
    run,             \* 1 in the first call of separate, 2 in the second
    first,           \* what the first call left: its outcome and result
    verdict          \* value returned by the function a pure check applies

vars == <<self, scene, nodes, selection, pc, transforms, payloads, groups,
          assemblies, assembly_groups, result, mutations, flaky, run, first,
          verdict>>

None == "None"

NoResult == "NoResult"

(***************************************************************************)
(* Matrices.  The modelled scenes hold unscaled transforms that translate  *)
(* along one axis and rotate about it, in whole units and whole degrees:   *)
(* a matrix is [t, r], products add, inverses negate.                      *)
(***************************************************************************)
MMatrix == [t |-> 0, r |-> 0]

Matrices_inverse(m) == [t |-> 0 - m.t, r |-> (360 - m.r) % 360]

Matrices_mult(a, b) == [t |-> a.t + b.t, r |-> (a.r + b.r) % 360]

\* (translation, rotation) of Matrices.decompose; the scale is always 1
Matrices_decompose(m) == <<m.t, m.r>>

(***************************************************************************)
(* Payload helpers.                                                        *)
(***************************************************************************)
\* sizes, positions are whole numbers: round(value, 4) leaves them as is
_component_signature(payload) ==
    <<payload.vertex_count, payload.bbox_size, payload.materials>>

_materials_match(payload, prototype) ==
    IF ~self.require_same_material THEN TRUE
    ELSE payload.materials = prototype.materials

RatOne == Rat(1, 1)

\* 1e-6 and 1e-12 of _geometry_matches
EpsAxis == Rat(1, 1000000)

EpsVolume == RatMul(EpsAxis, EpsAxis)

_ratio(a, b) ==
    LET denom == RatMax(RatMax(a, b), EpsAxis)
    IN  RatSub(RatOne, RatDiv(RatAbsDiff(a, b), denom))

BoxVolume(size) ==
    RatMax(Rat(size[1] * size[2] * size[3], 1), EpsVolume)

\* the volume term measured against the first box's volume, not the larger
Similarity_first_volume(size_a, size_b) ==
    LET axis_similarity ==
            RatDiv(RatAdd(RatAdd(_ratio(Rat(size_a[1], 1), Rat(size_b[1], 1)),
                                 _ratio(Rat(size_a[2], 1), Rat(size_b[2], 1))),
                          _ratio(Rat(size_a[3], 1), Rat(size_b[3], 1))),
                   Rat(3, 1))
        difference == RatAbsDiff(BoxVolume(size_a), BoxVolume(size_b))
        volume_similarity ==
            IF RatLeq(difference, BoxVolume(size_a))
            THEN RatSub(RatOne, RatDiv(difference, BoxVolume(size_a)))
            ELSE Rat(0, 1)
    IN  RatMul(RatAdd(axis_similarity, volume_similarity), Rat(1, 2))

\* the volume term alone
Similarity_volume_only(size_a, size_b) ==
    RatSub(RatOne, RatDiv(RatAbsDiff(BoxVolume(size_a), BoxVolume(size_b)),
                          RatMax(BoxVolume(size_a), BoxVolume(size_b))))

Similarity(size_a, size_b) ==
    LET axis_similarity ==
            RatDiv(RatAdd(RatAdd(_ratio(Rat(size_a[1], 1), Rat(size_b[1], 1)),
                                 _ratio(Rat(size_a[2], 1), Rat(size_b[2], 1))),
                          _ratio(Rat(size_a[3], 1), Rat(size_b[3], 1))),
                   Rat(3, 1))
        volume_a == BoxVolume(size_a)
        volume_b == BoxVolume(size_b)
        volume_similarity ==
            RatSub(RatOne, RatDiv(RatAbsDiff(volume_a, volume_b),
                                  RatMax(volume_a, volume_b)))
    IN  RatMul(RatAdd(axis_similarity, volume_similarity), Rat(1, 2))

\* similarity > tolerance in place of >=
_geometry_matches_strict(payload, prototype) ==
    IF payload.vertex_count # prototype.vertex_count THEN FALSE
    ELSE ~RatLeq(Similarity(payload.bbox_size, prototype.bbox_size),
                 self.tolerance)

_geometry_matches(payload, prototype) ==
    IF payload.vertex_count # prototype.vertex_count THEN FALSE
    ELSE RatLeq(self.tolerance,
                Similarity(payload.bbox_size, prototype.bbox_size))

(***************************************************************************)
(* Objects.  The list `payloads` that separate builds is also the store of *)
(* payload objects: a payload is referred to by its position in it, and    *)
(* the code's `is` on payloads is equality of positions.  Likewise a       *)
(* descriptor is referred to by its position in `assemblies`.              *)
(***************************************************************************)
P(id) == payloads[id]

(***************************************************************************)
(* Instance grouping: _group_payloads and _match_group.  A group is        *)
(* [prototype, members] over payload ids; _match_group returns the index   *)
(* of the group it returns in the code, 0 for None.                        *)
(***************************************************************************)
RECURSIVE MatchGroupFrom(_, _, _)
MatchGroupFrom(payload, gs, i) ==
    IF i > Len(gs) THEN 0
    ELSE IF ~_materials_match(P(payload), P(gs[i].prototype))
         THEN MatchGroupFrom(payload, gs, i + 1)
    ELSE IF _geometry_matches(P(payload), P(gs[i].prototype)) THEN i
    ELSE MatchGroupFrom(payload, gs, i + 1)

RECURSIVE MatchGroupLastFrom(_, _, _)
MatchGroupLastFrom(payload, gs, i) ==
    IF i = 0 THEN 0
    ELSE IF /\ _materials_match(P(payload), P(gs[i].prototype))
            /\ _geometry_matches(P(payload), P(gs[i].prototype)) THEN i
    ELSE MatchGroupLastFrom(payload, gs, i - 1)

_match_group_last(payload, gs) == MatchGroupLastFrom(payload, gs, Len(gs))

_match_group(payload, gs) == MatchGroupFrom(payload, gs, 1)

InstanceGroup(payload) == [prototype |-> payload, members |-> << >>]

add_member_overwrite(group, payload) ==
    [group EXCEPT !.members = <<payload>>]

add_member_front(group, payload) ==
    [group EXCEPT !.members = <<payload>> \o @]

add_member(group, payload) ==
    [group EXCEPT !.members = Append(@, payload)]

all_payloads(group) == <<group.prototype>> \o group.members

RECURSIVE GroupPayloadsFrom(_, _, _)
GroupPayloadsFrom(ids, i, gs) ==
    IF i > Len(ids) THEN gs
    ELSE LET group == _match_group(ids[i], gs)
         IN  IF group = 0
             THEN GroupPayloadsFrom(ids, i + 1,
                                    Append(gs, InstanceGroup(ids[i])))
             ELSE GroupPayloadsFrom(ids, i + 1,
                      [gs EXCEPT ![group] = add_member(@, ids[i])])

\* ids: the payloads to group, in order
_group_payloads(ids) == GroupPayloadsFrom(ids, 1, << >>)

Ids(seq) == [i \in 1 .. Len(seq) |-> i]

(***************************************************************************)
(* Sorting and selection helpers (Python's sorted is stable, max returns   *)
(* the first maximal element).                                             *)
(***************************************************************************)
\* 1e-4 of _payload_volume
EpsPayload == Rat(1, 10000)

_payload_volume(payload) ==
    LET size == payload.bbox_size
    IN  RatMul(RatMul(RatMax(Rat(size[1], 1), EpsPayload),
                      RatMax(Rat(size[2], 1), EpsPayload)),
               RatMax(Rat(size[3], 1), EpsPayload))

\* sorted(ids, key=lambda payload: payload.world_position)
RECURSIVE SortByPositionFrom(_, _, _)
SortByPositionFrom(ids, i, out) ==
    IF i > Len(ids) THEN out
    ELSE LET x == ids[i]
             k == Cardinality({j \in 1 .. Len(out) :
                     P(out[j]).world_position <= P(x).world_position})
         IN  SortByPositionFrom(ids, i + 1,
                 SubSeq(out, 1, k) \o <<x>> \o SubSeq(out, k + 1, Len(out)))

SortByPosition(ids) == SortByPositionFrom(ids, 1, << >>)

\* sorted(ids, key=self._payload_volume, reverse=True)
RECURSIVE SortByVolumeDescFrom(_, _, _)
SortByVolumeDescFrom(ids, i, out) ==
    IF i > Len(ids) THEN out
    ELSE LET x == ids[i]
             k == Cardinality({j \in 1 .. Len(out) :
                     RatLeq(_payload_volume(P(x)), _payload_volume(P(out[j])))})
         IN  SortByVolumeDescFrom(ids, i + 1,
                 SubSeq(out, 1, k) \o <<x>> \o SubSeq(out, k + 1, Len(out)))

SortByVolumeDesc(ids) == SortByVolumeDescFrom(ids, 1, << >>)

\* max(ids, key=self._payload_volume)
RECURSIVE MaxByVolumeFrom(_, _, _)
MaxByVolumeFrom(ids, i, best) ==
    IF i > Len(ids) THEN best
    ELSE IF RatLeq(_payload_volume(P(ids[i])), _payload_volume(P(best)))
         THEN MaxByVolumeFrom(ids, i + 1, best)
    ELSE MaxByVolumeFrom(ids, i + 1, ids[i])

MaxByVolume(ids) == MaxByVolumeFrom(ids, 2, ids[1])

\* a list of whole numbers, ascending
RECURSIVE SortIntsFrom(_, _, _)
SortIntsFrom(xs, i, out) ==
    IF i > Len(xs) THEN out
    ELSE LET k == Cardinality({j \in 1 .. Len(out) : out[j] <= xs[i]})
         IN  SortIntsFrom(xs, i + 1,
                 SubSeq(out, 1, k) \o <<xs[i]>> \o SubSeq(out, k + 1, Len(out)))

SortInts(xs) == SortIntsFrom(xs, 1, << >>)

SeqRange(seq) == {seq[i] : i \in 1 .. Len(seq)}

\* seq without its element at position k
RemoveAt(seq, k) == SubSeq(seq, 1, k - 1) \o SubSeq(seq, k + 1, Len(seq))

\* the distinct keys in order of first appearance (dict keys)
RECURSIVE KeysInOrderFrom(_, _, _)
KeysInOrderFrom(keys, i, out) ==
    IF i > Len(keys) THEN out
    ELSE IF keys[i] \in SeqRange(out)
         THEN KeysInOrderFrom(keys, i + 1, out)
    ELSE KeysInOrderFrom(keys, i + 1, Append(out, keys[i]))

KeysInOrder(keys) == KeysInOrderFrom(keys, 1, << >>)

(***************************************************************************)
(* Signatures and matrix scores.                                           *)
(***************************************************************************)
_matrix_signature(matrix) == Matrices_decompose(matrix)

_assembly_component_signature(payload) ==
    <<_component_signature(payload), _matrix_signature(payload.local_matrix)>>

\* the signatures in the order of the components, not sorted
SortedSignatures_unsorted(ids) ==
    [i \in 1 .. Len(ids) |-> _assembly_component_signature(P(ids[i]))]

\* tuple(sorted(signature of each component)): two sorted tuples are equal
\* iff they hold the same signatures the same number of times, so the tuple
\* is kept as the map signature -> count; the empty tuple is the empty map
SortedSignatures(ids) ==
    LET sig(i) == _assembly_component_signature(P(ids[i]))
    IN  [sg \in {sig(i) : i \in 1 .. Len(ids)} |->
            Cardinality({i \in 1 .. Len(ids) : sig(i) = sg})]

_payload_distance(payload_a, payload_b) ==
    Abs(payload_a.world_position - payload_b.world_position)

_relative_matrix(root_matrix, payload_matrix) ==
    Matrices_mult(Matrices_inverse(root_matrix), payload_matrix)

\* the difference as it is, not wrapped
_angle_delta_unwrapped(angle_a, angle_b) == angle_a - angle_b

_angle_delta(angle_a, angle_b) == ((angle_a - angle_b + 180) % 360) - 180

\* any translation passes
_translation_within_tolerance_any(candidate, reference) ==
    [ok |-> TRUE,
     delta |-> Abs(Matrices_decompose(candidate)[1]
                   - Matrices_decompose(reference)[1])]

\* [ok, delta]
_translation_within_tolerance(candidate, reference) ==
    LET delta == Abs(Matrices_decompose(candidate)[1]
                     - Matrices_decompose(reference)[1])
    IN  [ok |-> RatLeq(Rat(delta, 1), self.template_position_tolerance),
         delta |-> delta]

\* [ok, delta]; the two axes the scenes do not rotate about have delta 0
_rotation_within_tolerance(candidate, reference) ==
    LET max_delta == Max2(Abs(_angle_delta(Matrices_decompose(candidate)[2],
                                           Matrices_decompose(reference)[2])),
                          0)
    IN  [ok |-> RatLeq(Rat(max_delta, 1), self.template_rotation_tolerance),
         delta |-> max_delta]

\* [ok, score] from the two tolerance checks: ok is FALSE where the code
\* returns None
ScoreOf(tr, ro) ==
    IF ~tr.ok \/ ~ro.ok THEN [ok |-> FALSE, score |-> Rat(0, 1)]
    ELSE [ok |-> TRUE,
          score |-> RatAdd(Rat(tr.delta, 1),
                           RatDiv(Rat(ro.delta, 1),
                                  RatMax(self.template_rotation_tolerance,
                                         Rat(1, 1000))))]

_matrix_difference_score(candidate, reference) ==
    ScoreOf(_translation_within_tolerance(candidate, reference),
            _rotation_within_tolerance(candidate, reference))

(***************************************************************************)
(* Template slots and greedy slot matching.  A slot is [slot_id,           *)
(* signature, reference_matrix, prototype_payload, is_root].  The code's   *)
(* dict signature -> list of payloads is kept as one list (the pool) in    *)
(* the order of its lists; the candidates of a slot are the pool's         *)
(* payloads with the slot's signature.  A mapping is a function from slot  *)
(* ids to payload ids; [ok |-> FALSE, ...] stands for None.                *)
(***************************************************************************)
AssemblyTemplateSlot(slot_id, payload, reference, is_root) ==
    [slot_id |-> slot_id,
     signature |-> _component_signature(P(payload)),
     reference_matrix |-> reference,
     prototype_payload |-> payload,
     is_root |-> is_root]

_build_template_slots(descriptor) ==
    LET root_matrix == P(descriptor.root_component).matrix
    IN  [i \in 1 .. Len(descriptor.components) |->
            AssemblyTemplateSlot(
                i - 1, descriptor.components[i],
                _relative_matrix(root_matrix, P(descriptor.components[i]).matrix),
                descriptor.components[i] = descriptor.root_component)]

\* a candidate also replaces the best so far with an equal score
BetterCandidate_last(j, best, sc) ==
    IF sc.ok /\ (best.idx = 0 \/ RatLeq(sc.score, best.score))
    THEN [idx |-> j, score |-> sc.score]
    ELSE best

\* the inner loop of both matchers keeps [idx, score], the position in pool
\* of the best candidate so far (0 if none) and its score; a candidate
\* replaces it only with a strictly smaller score
BetterCandidate(j, best, sc) ==
    IF sc.ok /\ (best.idx = 0 \/ ~RatLeq(best.score, sc.score))
    THEN [idx |-> j, score |-> sc.score]
    ELSE best

RECURSIVE BestCandidateFrom(_, _, _, _, _)
BestCandidateFrom(pool, slot, root_matrix, j, best) ==
    IF j > Len(pool) THEN best.idx
    ELSE BestCandidateFrom(
             pool, slot, root_matrix, j + 1,
             IF _component_signature(P(pool[j])) # slot.signature THEN best
             ELSE BetterCandidate(
                      j, best,
                      _matrix_difference_score(
                          _relative_matrix(root_matrix, P(pool[j]).matrix),
                          slot.reference_matrix)))

BestCandidate(pool, slot, root_matrix) ==
    BestCandidateFrom(pool, slot, root_matrix, 1, [idx |-> 0, score |-> Rat(0, 1)])

NoMatches == [ok |-> FALSE, map |-> << >>]

RECURSIVE MatchAssemblyFrom(_, _, _, _, _)
RECURSIVE MatchAnchorFrom(_, _, _, _, _)

\* the end of the loop body for a slot, best being its candidate's position
MatchAssemblyTake(template_slots, i, pool, root_matrix, matches, best) ==
    IF best = 0 THEN NoMatches
    ELSE MatchAssemblyFrom(template_slots, i + 1, RemoveAt(pool, best),
                           root_matrix,
                           (template_slots[i].slot_id :> pool[best]) @@ matches)

MatchAssemblyFrom(template_slots, i, pool, root_matrix, matches) ==
    IF i > Len(template_slots) THEN [ok |-> TRUE, map |-> matches]
    ELSE MatchAssemblyTake(template_slots, i, pool, root_matrix, matches,
                           BestCandidate(pool, template_slots[i], root_matrix))

_match_assembly_to_template(descriptor, template_slots) ==
    MatchAssemblyFrom(template_slots, 1, descriptor.components,
                      P(descriptor.root_component).matrix, << >>)

\* a slot without a candidate is left unfilled and the loop goes on
MatchAnchorTake_skip(anchor, template_slots, i, availability, matches, best) ==
    IF best = 0
    THEN MatchAnchorFrom(anchor, template_slots, i + 1, availability, matches)
    ELSE MatchAnchorFrom(anchor, template_slots, i + 1,
                         RemoveAt(availability, best),
                         (template_slots[i].slot_id :> availability[best])
                             @@ matches)

\* [ok, map, availability]: the pool is the caller's and keeps what was
\* popped from it, also when the match fails
MatchAnchorTake(anchor, template_slots, i, availability, matches, best) ==
    IF best = 0
    THEN [ok |-> FALSE, map |-> << >>, availability |-> availability]
    ELSE MatchAnchorFrom(anchor, template_slots, i + 1,
                         RemoveAt(availability, best),
                         (template_slots[i].slot_id :> availability[best])
                             @@ matches)

MatchAnchorFrom(anchor, template_slots, i, availability, matches) ==
    IF i > Len(template_slots)
    THEN [ok |-> TRUE, map |-> matches, availability |-> availability]
    ELSE IF template_slots[i].is_root
         THEN MatchAnchorFrom(anchor, template_slots, i + 1, availability,
                              (template_slots[i].slot_id :> anchor) @@ matches)
    ELSE MatchAnchorTake(anchor, template_slots, i, availability, matches,
                         BestCandidate(availability, template_slots[i],
                                       P(anchor).matrix))

\* the same with the chosen candidate left in the pool
RECURSIVE MatchAnchorReuseFrom(_, _, _, _, _)
MatchAnchorReuseTake(anchor, template_slots, i, availability, matches, best) ==
    IF best = 0
    THEN [ok |-> FALSE, map |-> << >>, availability |-> availability]
    ELSE MatchAnchorReuseFrom(anchor, template_slots, i + 1, availability,
                              (template_slots[i].slot_id :> availability[best])
                                  @@ matches)

MatchAnchorReuseFrom(anchor, template_slots, i, availability, matches) ==
    IF i > Len(template_slots)
    THEN [ok |-> TRUE, map |-> matches, availability |-> availability]
    ELSE IF template_slots[i].is_root
         THEN MatchAnchorReuseFrom(anchor, template_slots, i + 1, availability,
                                   (template_slots[i].slot_id :> anchor)
                                       @@ matches)
    ELSE MatchAnchorReuseTake(anchor, template_slots, i, availability, matches,
                              BestCandidate(availability, template_slots[i],
                                            P(anchor).matrix))

_match_anchor_to_template_slots_reuse(anchor, template_slots, availability) ==
    MatchAnchorReuseFrom(anchor, template_slots, 1, availability, << >>)

_match_anchor_to_template_slots(anchor, template_slots, availability) ==
    MatchAnchorFrom(anchor, template_slots, 1, availability, << >>)

(***************************************************************************)
(* Assembly descriptors and anchor derivation.  A descriptor is            *)
(* [source_transform, components, signature, root_component,               *)
(* root_signature, matched_slots] over payload ids.  An operator whose     *)
(* code can raise returns [raised, ...].                                   *)
(***************************************************************************)
AssemblyDescriptor(source_transform, components, root_component, matched_slots) ==
    [source_transform |-> source_transform,
     components |-> components,
     signature |-> SortedSignatures(components),
     root_component |-> root_component,
     root_signature |-> _component_signature(P(root_component)),
     matched_slots |-> matched_slots]

\* "Template slot %s missing payload for anchor %s"
SlotMissingPayload(slot_payloads, template_slots) ==
    \E i \in 1 .. Len(template_slots) :
        template_slots[i].slot_id \notin DOMAIN slot_payloads

_descriptor_from_slot_mapping(anchor, source_transform, slot_payloads, template_slots) ==
    IF SlotMissingPayload(slot_payloads, template_slots)
    THEN [raised |-> TRUE, descriptor |-> << >>]
    ELSE [raised |-> FALSE,
          descriptor |->
            AssemblyDescriptor(
                source_transform,
                [i \in 1 .. Len(template_slots) |->
                    slot_payloads[template_slots[i].slot_id]],
                anchor, slot_payloads)]

_descriptor_from_components(source_transform, components) ==
    AssemblyDescriptor(source_transform, components,
                       MaxByVolume(components), << >>)

RECURSIVE SelectAnchorFrom(_, _, _)
SelectAnchorFrom(components, sorted_components, i) ==
    IF i > Len(sorted_components) THEN << >>
    ELSE LET signature == _component_signature(P(sorted_components[i]))
             duplicates ==
                 SelectSeq(components,
                           LAMBDA c : _component_signature(P(c)) = signature)
         IN  IF Len(duplicates) >= 2 THEN SortByPosition(duplicates)
             ELSE SelectAnchorFrom(components, sorted_components, i + 1)

_select_anchor_payloads(components) ==
    SelectAnchorFrom(components, SortByVolumeDesc(components), 1)

\* ceil(a / b) for whole a >= 0, b > 0
CeilDiv(a, b) == (a + b - 1) \div b

_neighbor_radius(anchor, components, assembly_count) ==
    IF assembly_count <= 0 THEN Rat(1, 1)
    ELSE LET others == SelectSeq(components, LAMBDA c : c # anchor)
             distances ==
                 SortInts([i \in 1 .. Len(others) |->
                              _payload_distance(P(anchor), P(others[i]))])
             approx_components ==
                 Max2(CeilDiv(Len(components), Max2(assembly_count, 1)), 1)
             \* a 0-based index
             neighbor_index ==
                 Min2(Len(distances) - 1, Max2(approx_components - 1, 0))
         IN  IF Len(distances) = 0 THEN Rat(1, 1)
             ELSE RatAdd(Rat(distances[neighbor_index + 1], 1),
                         self.template_position_tolerance)

_anchor_capture_radius(anchor, components, assembly_count) ==
    LET size == P(anchor).bbox_size
        longest_axis == Max2(Max2(size[1], size[2]), size[3])
        scale_radius ==
            RatMax(RatMul(Rat(longest_axis, 1), self.anchor_capture_multiplier),
                   Rat(1, 1))
        neighbor_radius == _neighbor_radius(anchor, components, assembly_count)
    IN  RatMax(scale_radius, neighbor_radius)

_build_anchor_template_slots(anchor, components, assembly_count) ==
    LET capture_radius ==
            _anchor_capture_radius(anchor, components, assembly_count)
        captured ==
            SelectSeq(components,
                      LAMBDA c : RatLeq(Rat(_payload_distance(P(anchor), P(c)), 1),
                                        capture_radius))
    IN  [i \in 1 .. Len(captured) |->
            AssemblyTemplateSlot(
                i - 1, captured[i],
                _relative_matrix(P(anchor).matrix, P(captured[i]).matrix),
                captured[i] = anchor)]

_build_anchor_availability(components, consumed_payloads, anchors) ==
    LET consumed == {P(c).transform : c \in consumed_payloads}
        anchor_transforms == {P(a).transform : a \in SeqRange(anchors)}
    IN  SortByPosition(
            SelectSeq(components,
                      LAMBDA c : /\ P(c).transform \notin consumed
                                 /\ P(c).transform \notin anchor_transforms))

\* {slot.slot_id: slot.prototype_payload for slot in template_slots}
SlotPrototypes(template_slots) ==
    [k \in {template_slots[i].slot_id : i \in 1 .. Len(template_slots)} |->
        template_slots[k + 1].prototype_payload]

NoDescriptors == [raised |-> FALSE, descriptors |-> << >>]

RaisedDescriptors == [raised |-> TRUE, descriptors |-> << >>]

\* the loop over the other anchors: [raised, descriptors, used_transforms]
RECURSIVE DeriveOccurrencesFrom(_, _, _, _, _, _, _)

\* the end of the loop body for an anchor whose slots m.map fills, d being
\* what _descriptor_from_slot_mapping makes of it
DeriveOccurrenceAdd(anchors, i, template_anchor, template_slots, m, d, descriptors, used_transforms) ==
    IF d.raised
    THEN [raised |-> TRUE, descriptors |-> << >>, used_transforms |-> {}]
    ELSE DeriveOccurrencesFrom(
             anchors, i + 1, template_anchor, template_slots, m.availability,
             Append(descriptors, d.descriptor),
             used_transforms \cup {P(m.map[k]).transform : k \in DOMAIN m.map})

\* the loop body once the anchor's match m is known
DeriveOccurrenceTake(anchors, i, template_anchor, template_slots, m, descriptors, used_transforms) ==
    IF ~m.ok
    THEN DeriveOccurrencesFrom(anchors, i + 1, template_anchor, template_slots,
                               m.availability, descriptors, used_transforms)
    ELSE DeriveOccurrenceAdd(
             anchors, i, template_anchor, template_slots, m,
             _descriptor_from_slot_mapping(anchors[i], P(anchors[i]).transform,
                                           m.map, template_slots),
             descriptors, used_transforms)

DeriveOccurrencesFrom(anchors, i, template_anchor, template_slots, availability, descriptors, used_transforms) ==
    IF i > Len(anchors)
    THEN [raised |-> FALSE, descriptors |-> descriptors,
          used_transforms |-> used_transforms]
    ELSE IF anchors[i] = template_anchor
         THEN DeriveOccurrencesFrom(anchors, i + 1, template_anchor,
                  template_slots, availability, descriptors, used_transforms)
    ELSE DeriveOccurrenceTake(
             anchors, i, template_anchor, template_slots,
             _match_anchor_to_template_slots(anchors[i], template_slots,
                                             availability),
             descriptors, used_transforms)

\* the template's descriptor alone is enough
DerivedDescriptors_single(rest, unused_components, source_transform) ==
    IF rest.raised THEN RaisedDescriptors
    ELSE IF Len(rest.descriptors) < 1 THEN NoDescriptors
    ELSE IF Len(unused_components) > 0
         THEN [raised |-> FALSE,
               descriptors |->
                   Append(rest.descriptors,
                          _descriptor_from_components(source_transform,
                                                      unused_components))]
    ELSE [raised |-> FALSE, descriptors |-> rest.descriptors]

\* lines 490-504: what the derivation returns once the loop has ended
DerivedDescriptors(rest, unused_components, source_transform) ==
    IF rest.raised THEN RaisedDescriptors
    ELSE IF Len(rest.descriptors) <= 1 THEN NoDescriptors
    ELSE IF Len(unused_components) > 0
         THEN [raised |-> FALSE,
               descriptors |->
                   Append(rest.descriptors,
                          _descriptor_from_components(source_transform,
                                                      unused_components))]
    ELSE [raised |-> FALSE, descriptors |-> rest.descriptors]

DeriveUnused(rest, components, source_transform) ==
    DerivedDescriptors(
        rest,
        SelectSeq(components,
                  LAMBDA c : P(c).transform \notin rest.used_transforms),
        source_transform)

\* lines 449-504, the template's descriptor being made
DeriveWithTemplate(template_anchor, anchors, components, source_transform, template_slots, template_mapping, template_descriptor) ==
    IF template_descriptor.raised THEN RaisedDescriptors
    ELSE DeriveUnused(
             DeriveOccurrencesFrom(
                 anchors, 1, template_anchor, template_slots,
                 _build_anchor_availability(
                     components,
                     {template_mapping[k] : k \in DOMAIN template_mapping},
                     anchors),
                 <<template_descriptor.descriptor>>,
                 {P(template_mapping[k]).transform :
                     k \in DOMAIN template_mapping}),
             components, source_transform)

\* lines 439-462, the template's slots being built
DeriveWithSlots(template_anchor, anchors, components, source_transform, template_slots, root_slots) ==
    IF Len(template_slots) <= 1 THEN NoDescriptors
    ELSE IF Len(root_slots) # 1 \/ ~root_slots[1].is_root THEN NoDescriptors
    ELSE DeriveWithTemplate(
             template_anchor, anchors, components, source_transform,
             template_slots, SlotPrototypes(template_slots),
             _descriptor_from_slot_mapping(
                 template_anchor, P(template_anchor).transform,
                 SlotPrototypes(template_slots), template_slots))

RootSlots(template_anchor, template_slots) ==
    SelectSeq(template_slots,
              LAMBDA sl : sl.signature = _component_signature(P(template_anchor)))

DeriveFromSlots(template_anchor, anchors, components, source_transform, template_slots) ==
    DeriveWithSlots(template_anchor, anchors, components, source_transform,
                    template_slots, RootSlots(template_anchor, template_slots))

_derive_from_template_anchor(template_anchor, anchors, components, source_transform, assembly_count) ==
    DeriveFromSlots(
        template_anchor, anchors, components, source_transform,
        _build_anchor_template_slots(template_anchor, components,
                                     assembly_count))

RECURSIVE DeriveAnchorAssembliesFrom(_, _, _, _)

DeriveAnchorAssembliesTake(source_transform, components, anchors, i, derived) ==
    IF derived.raised \/ Len(derived.descriptors) > 0 THEN derived
    ELSE DeriveAnchorAssembliesFrom(source_transform, components, anchors,
                                    i + 1)

DeriveAnchorAssembliesFrom(source_transform, components, anchors, i) ==
    IF i > Len(anchors) THEN NoDescriptors
    ELSE DeriveAnchorAssembliesTake(
             source_transform, components, anchors, i,
             _derive_from_template_anchor(anchors[i], anchors, components,
                                          source_transform, Len(anchors)))

DeriveWithAnchors(source_transform, components, anchors) ==
    IF Len(anchors) < 2 THEN NoDescriptors
    ELSE DeriveAnchorAssembliesFrom(source_transform, components, anchors, 1)

_derive_anchor_assemblies(source_transform, components) ==
    IF Len(components) < 2 THEN NoDescriptors
    ELSE DeriveWithAnchors(source_transform, components,
                           _select_anchor_payloads(components))

\* the loop over the buckets, in the order their sources first appear
RECURSIVE BuildAssembliesFrom(_, _, _, _)

BuildAssembliesTake(ids, sources, i, out, components, anchor_assemblies) ==
    IF anchor_assemblies.raised THEN RaisedDescriptors
    ELSE IF Len(anchor_assemblies.descriptors) > 0
         THEN BuildAssembliesFrom(ids, sources, i + 1,
                                  out \o anchor_assemblies.descriptors)
    ELSE BuildAssembliesFrom(
             ids, sources, i + 1,
             Append(out, AssemblyDescriptor(sources[i], components,
                                            MaxByVolume(components), << >>)))

BuildAssembliesBucket(ids, sources, i, out, components) ==
    BuildAssembliesTake(
        ids, sources, i, out, components,
        IF self.derive_anchor_assemblies
        THEN _derive_anchor_assemblies(sources[i], components)
        ELSE NoDescriptors)

BuildAssembliesFrom(ids, sources, i, out) ==
    IF i > Len(sources) THEN [raised |-> FALSE, descriptors |-> out]
    ELSE BuildAssembliesBucket(
             ids, sources, i, out,
             SelectSeq(ids, LAMBDA c : P(c).source_transform = sources[i]))

_build_assemblies(ids) ==
    BuildAssembliesFrom(
        ids,
        KeysInOrder([c \in 1 .. Len(ids) |-> P(ids[c]).source_transform]),
        1, << >>)

(***************************************************************************)
(* Assembly grouping.  An assembly group is [prototype, template_slots,    *)
(* members] over descriptor ids (positions in the list of descriptors);    *)
(* _group_assemblies returns the groups and the descriptors, whose         *)
(* matched_slots it assigns.                                               *)
(***************************************************************************)
\* max(bucket, key=lambda desc: len(desc.components)), bucket of ids
RECURSIVE SelectReferenceFrom(_, _, _, _)
SelectReferenceFrom(descs, bucket, i, best) ==
    IF i > Len(bucket) THEN best
    ELSE IF Len(descs[bucket[i]].components) > Len(descs[best].components)
         THEN SelectReferenceFrom(descs, bucket, i + 1, bucket[i])
    ELSE SelectReferenceFrom(descs, bucket, i + 1, best)

_select_reference_assembly(descs, bucket) ==
    SelectReferenceFrom(descs, bucket, 2, bucket[1])

\* the loop over one bucket's descriptors: [descs, group]
RECURSIVE MatchBucketFrom(_, _, _, _, _)

MatchBucketTake(descs, bucket, i, reference, group, matches) ==
    IF ~matches.ok
    THEN MatchBucketFrom(descs, bucket, i + 1, reference, group)
    ELSE MatchBucketFrom(
             [descs EXCEPT ![bucket[i]].matched_slots = matches.map],
             bucket, i + 1, reference,
             [group EXCEPT !.members = Append(@, bucket[i])])

MatchBucketFrom(descs, bucket, i, reference, group) ==
    IF i > Len(bucket) THEN [descs |-> descs, group |-> group]
    ELSE IF bucket[i] = reference
         THEN MatchBucketFrom(descs, bucket, i + 1, reference, group)
    ELSE MatchBucketTake(
             descs, bucket, i, reference, group,
             _match_assembly_to_template(descs[bucket[i]],
                                         group.template_slots))

\* the loop over the signature buckets: [descs, groups]
RECURSIVE GroupBucketsFrom(_, _, _, _)

GroupBucketsAppend(signatures, i, gs, done) ==
    GroupBucketsFrom(done.descs, signatures, i + 1, Append(gs, done.group))

GroupBucketsTemplate(descs, signatures, i, gs, bucket, reference, template_slots) ==
    GroupBucketsAppend(
        signatures, i, gs,
        MatchBucketFrom(
            [descs EXCEPT ![reference].matched_slots =
                              SlotPrototypes(template_slots)],
            bucket, 1, reference,
            [prototype |-> reference, template_slots |-> template_slots,
             members |-> << >>]))

GroupBucketsReference(descs, signatures, i, gs, bucket, reference) ==
    GroupBucketsTemplate(descs, signatures, i, gs, bucket, reference,
                         _build_template_slots(descs[reference]))

GroupBucketsBucket(descs, signatures, i, gs, bucket) ==
    GroupBucketsReference(descs, signatures, i, gs, bucket,
                          _select_reference_assembly(descs, bucket))

GroupBucketsFrom(descs, signatures, i, gs) ==
    IF i > Len(signatures) THEN [descs |-> descs, groups |-> gs]
    ELSE GroupBucketsBucket(
             descs, signatures, i, gs,
             SelectSeq(Ids(descs),
                       LAMBDA d : descs[d].signature = signatures[i]))

\* the last loop: every descriptor no bucket group holds gets its own group
RECURSIVE GroupUnassignedFrom(_, _, _, _)

GroupUnassignedTake(descs, assigned_ids, i, gs, template_slots) ==
    GroupUnassignedFrom(
        [descs EXCEPT ![i].matched_slots = SlotPrototypes(template_slots)],
        assigned_ids, i + 1,
        Append(gs, [prototype |-> i, template_slots |-> template_slots,
                    members |-> << >>]))

GroupUnassignedFrom(descs, assigned_ids, i, gs) ==
    IF i > Len(descs) THEN [descs |-> descs, groups |-> gs]
    ELSE IF i \in assigned_ids
         THEN GroupUnassignedFrom(descs, assigned_ids, i + 1, gs)
    ELSE GroupUnassignedTake(descs, assigned_ids, i, gs,
                             _build_template_slots(descs[i]))

\* the references alone
AssignedIds_prototypes(gs) == {gs[g].prototype : g \in 1 .. Len(gs)}

\* the descriptor ids the bucket groups hold
AssignedIds(gs) ==
    UNION {{gs[g].prototype} \cup SeqRange(gs[g].members) : g \in 1 .. Len(gs)}

GroupAssembliesRest(grouped) ==
    GroupUnassignedFrom(grouped.descs, AssignedIds(grouped.groups), 1,
                        grouped.groups)

\* descriptor.signature is falsy iff it is the empty tuple
SignatureTruthy(signature) == DOMAIN signature # {}

_group_assemblies(descs) ==
    GroupAssembliesRest(
        GroupBucketsFrom(
            descs,
            KeysInOrder(SelectSeq([d \in 1 .. Len(descs) |-> descs[d].signature],
                                  SignatureTruthy)),
            1, << >>))

(***************************************************************************)
(* The scene and the registries.  A node is [mesh, shells, vertex_count,   *)
(* bbox_size, materials, matrix, parent, visibility]; shells lists the     *)
(* shells of a mesh that has more than one, each [vertex_count, bbox_size, *)
(* offset].  pm.polySeparate moves every shell of a mesh into a new        *)
(* transform under the separated one, which keeps no mesh.  A parent is a  *)
(* name: a group's, or the digits of a transform's handle.                 *)
(***************************************************************************)
Has(dict, key) == key \in DOMAIN dict

Put(dict, key, value) ==
    [k \in DOMAIN dict \cup {key} |-> IF k = key THEN value ELSE dict[k]]

\* the handle of the k-th transform pm.polySeparate creates under transform
PieceHandle(transform, k) == transform * 10 + k

\* [c2s, mats] after _register_source_transform; fails: to_mmatrix raises
_register_source_transform(reg, transform, fails) ==
    [mats |-> IF Has(reg.mats, transform) THEN reg.mats
              ELSE Put(reg.mats, transform,
                       IF fails THEN MMatrix ELSE scene[transform].matrix),
     c2s |-> IF Has(reg.c2s, transform) THEN reg.c2s
             ELSE Put(reg.c2s, transform, transform)]

RECURSIVE RegisterAllFrom(_, _, _)
RegisterAllFrom(reg, ts, i) ==
    IF i > Len(ts) THEN reg
    ELSE RegisterAllFrom(
             _register_source_transform(reg, ts[i], ts[i] \in flaky), ts, i + 1)

_normalize_nodes(ns) == IF ns # << >> THEN ns ELSE selection

_needs_shell_split(sc, transform) ==
    sc[transform].mesh /\ Len(sc[transform].shells) > 1

\* [scene, c2s, valid_transforms, mutations] after _split_transform_shells
_split_transform_shells(sc, c2s, transform) ==
    LET node == sc[transform]
        count == Len(node.shells)
        pieces == [k \in 1 .. count |-> PieceHandle(transform, k)]
        piece(k) ==
            [mesh |-> TRUE, shells |-> << >>,
             vertex_count |-> node.shells[k].vertex_count,
             bbox_size |-> node.shells[k].bbox_size,
             materials |-> node.materials,
             matrix |-> [t |-> node.matrix.t + node.shells[k].offset,
                         r |-> node.matrix.r],
             parent |-> IF node.parent # None THEN node.parent
                        ELSE ToString(transform),
             visibility |-> node.visibility]
    IN  [scene |->
            [h \in DOMAIN sc \cup SeqRange(pieces) |->
                IF h = transform THEN [node EXCEPT !.mesh = FALSE,
                                                   !.shells = << >>]
                ELSE IF h \in DOMAIN sc THEN sc[h]
                ELSE piece(h - transform * 10)],
         c2s |-> [h \in DOMAIN c2s \cup SeqRange(pieces) |->
                     IF h \in SeqRange(pieces) THEN transform ELSE c2s[h]],
         valid_transforms |-> pieces,
         mutations |->
            <<[op |-> "polySeparate", node |-> transform]>>
            \o [k \in 1 .. (IF node.parent # None THEN count ELSE 0) |->
                   [op |-> "parent", node |-> pieces[k]]]
            \o [k \in 1 .. count |-> [op |-> "setVisibility", node |-> pieces[k]]]]

\* the loop of _expand_shells: [scene, reg, expanded, mutations]
RECURSIVE ExpandShellsFrom(_, _, _)
ExpandShellsFrom(acc, ts, i) ==
    IF i > Len(ts) THEN acc
    ELSE LET reg == _register_source_transform(acc.reg, ts[i], ts[i] \in flaky)
         IN  IF ~_needs_shell_split(acc.scene, ts[i])
             THEN ExpandShellsFrom(
                      [acc EXCEPT !.reg = reg,
                                  !.expanded = Append(@, ts[i])], ts, i + 1)
             ELSE LET sp == _split_transform_shells(acc.scene, reg.c2s, ts[i])
                  IN  ExpandShellsFrom(
                          [scene |-> sp.scene,
                           reg |-> [reg EXCEPT !.c2s = sp.c2s],
                           expanded |->
                               IF Len(sp.valid_transforms) > 0
                               THEN acc.expanded \o sp.valid_transforms
                               ELSE Append(acc.expanded, ts[i]),
                           mutations |-> acc.mutations \o sp.mutations],
                          ts, i + 1)

_expand_shells(ts) ==
    ExpandShellsFrom(
        [scene |-> scene,
         reg |-> [c2s |-> self._component_to_source,
                  mats |-> self._source_world_mats],
         expanded |-> << >>, mutations |-> << >>], ts, 1)

\* _build_payload for a transform of the scene sc that has a mesh shape
_build_payload(sc, transform, mats, c2s) ==
    LET node == sc[transform]
        matrix == node.matrix
        source_transform == IF Has(c2s, transform) THEN c2s[transform]
                            ELSE transform
        source_matrix == IF Has(mats, source_transform)
                         THEN mats[source_transform]
                         ELSE sc[source_transform].matrix
    IN  [transform |-> transform, shape |-> transform, matrix |-> matrix,
         bbox_size |-> node.bbox_size, materials |-> node.materials,
         parent |-> node.parent, visibility |-> node.visibility,
         vertex_count |-> node.vertex_count,
         source_transform |-> source_transform,
         local_matrix |-> Matrices_mult(Matrices_inverse(source_matrix), matrix),
         world_position |-> Matrices_decompose(matrix)[1]]

\* the payload _build_payload returns during discovery
InstancePayload(transform, mats, c2s) ==
    _build_payload(scene, transform, mats, c2s)

\* the same loop that stops at the first transform without a mesh
RECURSIVE BuildPayloadsUntilNoneFrom(_, _, _)
BuildPayloadsUntilNoneFrom(acc, ts, i) ==
    IF i > Len(ts) THEN acc
    ELSE IF ~scene[ts[i]].mesh THEN acc
    ELSE BuildPayloadsUntilNoneFrom(
             [acc EXCEPT !.payloads =
                 Append(@, InstancePayload(ts[i], acc.mats,
                                           self._component_to_source))],
             ts, i + 1)

\* [payloads, mats]: the payloads of the transforms that have a mesh, in
\* order, and the matrix cache, which a miss fills
RECURSIVE BuildPayloadsFrom(_, _, _)
BuildPayloadsFrom(acc, ts, i) ==
    IF i > Len(ts) THEN acc
    ELSE IF ~scene[ts[i]].mesh THEN BuildPayloadsFrom(acc, ts, i + 1)
    ELSE LET payload == InstancePayload(ts[i], acc.mats,
                                        self._component_to_source)
         IN  BuildPayloadsFrom(
                 [payloads |-> Append(acc.payloads, payload),
                  mats |-> IF Has(acc.mats, payload.source_transform)
                           THEN acc.mats
                           ELSE Put(acc.mats, payload.source_transform,
                                    scene[payload.source_transform].matrix)],
                 ts, i + 1)

(***************************************************************************)
(* The rebuild.  Its state st is [scene, payloads, assemblies, c2s, mats,  *)
(* log, failed, raised, fault]: log lists the scene-changing requests      *)
(* issued, failed tells whether the last one raised RuntimeError, raised   *)
(* whether an exception left the rebuild.  A request raises RuntimeError   *)
(* when its node is no longer in the scene, and when it is the first       *)
(* request of the kind fault.  Node names are not modelled: a rename is    *)
(* only logged.                                                            *)
(***************************************************************************)
\* the handle of the instance made for the payload whose transform is given
InstanceHandle(transform) == 100 + transform

\* the handle of the mesh polyUnite makes of descriptor d's components
UnitedHandle(d) == 200 + d

RequestFails(st, op, node) ==
    \/ node \notin DOMAIN st.scene
    \/ st.fault = op /\ \A k \in 1 .. Len(st.log) : st.log[k].op # op

Issue(st, op, node) ==
    [st EXCEPT !.log = Append(@, [op |-> op, node |-> node,
                                  failed |-> RequestFails(st, op, node)]),
               !.failed = RequestFails(st, op, node)]

\* an exception no handler catches
Uncaught(st) == [st EXCEPT !.raised = TRUE]

Without(sc, node) == [h \in DOMAIN sc \ {node} |-> sc[h]]

\* lines 964-969
SlotRebound(st, tp, new) ==
    [st EXCEPT !.payloads[tp].transform = new,
               !.payloads[tp].shape = new,
               !.payloads[tp].matrix = st.scene[new].matrix]

\* lines 955-962, st being the state after pm.delete
SlotDeleted(st, tp, new) ==
    SlotRebound(
        Issue(IF st.failed THEN st
              ELSE [st EXCEPT !.scene = Without(@, st.payloads[tp].transform)],
              "rename", new),
        tp, new)

\* line 954 on: setVisibility has no handler
SlotVisible(st, tp, new) ==
    IF st.failed THEN Uncaught(st)
    ELSE SlotDeleted(
             Issue([st EXCEPT !.scene[new].visibility =
                                  st.payloads[tp].visibility],
                   "delete", st.payloads[tp].transform),
             tp, new)

\* lines 950-954, st being the state after pm.parent
SlotParented(st, tp, new) ==
    SlotVisible(
        Issue(IF st.failed THEN st
              ELSE [st EXCEPT !.scene[new].parent = st.payloads[tp].parent],
              "setVisibility", new),
        tp, new)

\* lines 948-954: bake_world_matrix_to_transform has no handler
SlotBaked(st, tp, new) ==
    IF st.failed THEN Uncaught(st)
    ELSE IF st.payloads[tp].parent # None
         THEN SlotParented(
                  Issue([st EXCEPT !.scene[new].matrix = st.payloads[tp].matrix],
                        "parent", new),
                  tp, new)
    ELSE SlotVisible(
             Issue([st EXCEPT !.scene[new].matrix = st.payloads[tp].matrix],
                   "setVisibility", new),
             tp, new)

\* lines 938-948, st being the state after pm.instance
SlotInstanced(st, tp, pp, new) ==
    IF st.failed THEN st
    ELSE SlotBaked(
             Issue([st EXCEPT !.scene =
                        Put(@, new, st.scene[st.payloads[pp].transform])],
                   "bake", new),
             tp, new)

\* the body of the loop of _rebuild_single_assembly for one slot
RebuildSlot(st, slot, d) ==
    IF slot.slot_id \notin DOMAIN st.assemblies[d].matched_slots THEN st
    ELSE IF st.payloads[st.assemblies[d].matched_slots[slot.slot_id]].transform
                = st.payloads[slot.prototype_payload].transform
         THEN st
    ELSE SlotInstanced(
             Issue(st, "instance", st.payloads[slot.prototype_payload].transform),
             st.assemblies[d].matched_slots[slot.slot_id],
             slot.prototype_payload,
             InstanceHandle(
                 st.payloads[st.assemblies[d].matched_slots[slot.slot_id]]
                     .transform))

RECURSIVE RebuildSlotsFrom(_, _, _, _)
RebuildSlotsFrom(st, template_slots, d, k) ==
    IF st.raised \/ k > Len(template_slots) THEN st
    ELSE RebuildSlotsFrom(RebuildSlot(st, template_slots[k], d),
                          template_slots, d, k + 1)

\* lines 975-984: the transforms of the matched payloads that exist, once
CollapseTransforms(st, d) ==
    KeysInOrder(
        SelectSeq(
            [k \in 1 .. Cardinality(DOMAIN st.assemblies[d].matched_slots) |->
                st.payloads[st.assemblies[d].matched_slots[k - 1]].transform],
            LAMBDA t : t \in DOMAIN st.scene))

RECURSIVE SumVertexCount(_, _, _)
SumVertexCount(sc, ts, i) ==
    IF i > Len(ts) THEN 0
    ELSE sc[ts[i]].vertex_count + SumVertexCount(sc, ts, i + 1)

RECURSIVE MaxOver(_, _, _, _)
MaxOver(xs, i, best, sign) ==
    IF i > Len(xs) THEN best
    ELSE MaxOver(xs, i + 1,
                 IF sign * xs[i] > sign * best THEN xs[i] ELSE best, sign)

\* the mesh polyUnite makes of the transforms ts: their shells in one mesh
\* under the world, its box spanning them along the axis
UnitedNode(sc, ts) ==
    [mesh |-> TRUE,
     shells |-> [k \in 1 .. Len(ts) |->
                    [vertex_count |-> sc[ts[k]].vertex_count,
                     bbox_size |-> sc[ts[k]].bbox_size,
                     offset |-> sc[ts[k]].matrix.t]],
     vertex_count |-> SumVertexCount(sc, ts, 1),
     bbox_size |->
        <<MaxOver([k \in 1 .. Len(ts) |-> sc[ts[k]].matrix.t], 1,
                  sc[ts[1]].matrix.t, 1)
            - MaxOver([k \in 1 .. Len(ts) |-> sc[ts[k]].matrix.t], 1,
                      sc[ts[1]].matrix.t, -1)
            + MaxOver([k \in 1 .. Len(ts) |-> sc[ts[k]].bbox_size[1]], 1, 0, 1),
          MaxOver([k \in 1 .. Len(ts) |-> sc[ts[k]].bbox_size[2]], 1, 0, 1),
          MaxOver([k \in 1 .. Len(ts) |-> sc[ts[k]].bbox_size[3]], 1, 0, 1)>>,
     materials |-> UNION {sc[ts[k]].materials : k \in 1 .. Len(ts)},
     matrix |-> MMatrix, parent |-> None, visibility |-> TRUE]

\* lines 1044-1058: the registries and the descriptor after the collapse
CollapseRebuilt(st, d, united, payload) ==
    [st EXCEPT !.payloads = Append(@, payload),
               !.assemblies[d] =
                   [source_transform |-> united,
                    components |-> <<Len(st.payloads) + 1>>,
                    signature |->
                        [sg \in {_assembly_component_signature(payload)} |-> 1],
                    root_component |-> Len(st.payloads) + 1,
                    root_signature |-> _component_signature(payload),
                    matched_slots |-> (0 :> (Len(st.payloads) + 1))]]

\* lines 1038-1048, st being the state after the deletes
CollapseRenamed(st, d, united) ==
    CollapseRebuilt(
        [st EXCEPT !.c2s = Put(@, united, united),
                   !.mats = Put(@, united, st.scene[united].matrix)],
        d, united,
        _build_payload(st.scene, united,
                       Put(st.mats, united, st.scene[united].matrix),
                       Put(st.c2s, united, united)))

\* lines 1028-1036
RECURSIVE CollapseDeleteFrom(_, _, _, _)
CollapseDeleteTake(st, ts, i, united) ==
    CollapseDeleteFrom(
        IF st.failed THEN st ELSE [st EXCEPT !.scene = Without(@, ts[i])],
        ts, i + 1, united)

CollapseDeleteFrom(st, ts, i, united) ==
    IF i > Len(ts) THEN st
    ELSE IF ts[i] = united \/ ts[i] \notin DOMAIN st.scene
         THEN CollapseDeleteFrom(st, ts, i + 1, united)
    ELSE CollapseDeleteTake(Issue(st, "delete", ts[i]), ts, i, united)

\* lines 1022-1042, st being the state after pm.parent when parent is set
CollapseParented(st, d, ts, united, parent, target_name) ==
    CollapseRenamed(
        IF target_name
        THEN Issue(CollapseDeleteFrom(
                       IF parent # None /\ ~st.failed
                       THEN [st EXCEPT !.scene[united].parent = parent]
                       ELSE st,
                       ts, 1, united),
                   "rename", united)
        ELSE CollapseDeleteFrom(
                 IF parent # None /\ ~st.failed
                 THEN [st EXCEPT !.scene[united].parent = parent]
                 ELSE st,
                 ts, 1, united),
        d, united)

\* lines 995-1026, st being the state after pm.polyUnite
CollapseUnited(st, d, ts, united, parent, target_name) ==
    IF st.failed THEN st
    ELSE IF parent # None
         THEN CollapseParented(
                  Issue(Issue(Issue([st EXCEPT !.scene =
                                        Put(@, united, UnitedNode(st.scene, ts))],
                                    "deleteHistory", united),
                              "makeIdentity", united),
                        "parent", united),
                  d, ts, united, parent, target_name)
    ELSE CollapseParented(
             Issue(Issue([st EXCEPT !.scene =
                              Put(@, united, UnitedNode(st.scene, ts))],
                         "deleteHistory", united),
                   "makeIdentity", united),
             d, ts, united, parent, target_name)

CollapseOf(st, d, ts) ==
    IF Len(ts) <= 1 THEN st
    ELSE CollapseUnited(
             Issue(st, "polyUnite", ts[1]), d, ts, UnitedHandle(d),
             IF st.assemblies[d].source_transform \in DOMAIN st.scene
             THEN st.scene[st.assemblies[d].source_transform].parent
             ELSE None,
             st.assemblies[d].source_transform \in DOMAIN st.scene)

_collapse_assembly_components(st, d) ==
    CollapseOf(st, d, CollapseTransforms(st, d))

\* lines 971-972, st being the state after the loop over the slots
RebuildCollapse(st, d) ==
    IF st.raised THEN st
    ELSE IF self.collapse_rebuilt_assemblies
         THEN _collapse_assembly_components(st, d)
    ELSE st

_rebuild_single_assembly(st, group, d) ==
    IF group.template_slots = << >> THEN st
    ELSE RebuildCollapse(RebuildSlotsFrom(st, group.template_slots, d, 1), d)

RECURSIVE RebuildTargetsFrom(_, _, _, _)
RebuildTargetsFrom(st, group, targets, i) ==
    IF st.raised \/ i > Len(targets) THEN st
    ELSE RebuildTargetsFrom(_rebuild_single_assembly(st, group, targets[i]),
                            group, targets, i + 1)

\* the loop over all the assembly groups, those without members included
RECURSIVE RebuildGroupsFrom_all(_, _, _)
RebuildGroupsFrom_all(st, gs, g) ==
    IF st.raised \/ g > Len(gs) THEN st
    ELSE RebuildGroupsFrom_all(
             RebuildTargetsFrom(st, gs[g],
                                <<gs[g].prototype>> \o gs[g].members, 1),
             gs, g + 1)

RECURSIVE RebuildGroupsFrom(_, _, _)
RebuildGroupsFrom(st, gs, g) ==
    IF st.raised \/ g > Len(gs) THEN st
    ELSE IF gs[g].members = << >> THEN RebuildGroupsFrom(st, gs, g + 1)
    ELSE RebuildGroupsFrom(
             RebuildTargetsFrom(st, gs[g],
                                <<gs[g].prototype>> \o gs[g].members, 1),
             gs, g + 1)

\* gs: result.assembly_groups
_rebuild_instantiable_assemblies(st, gs) == RebuildGroupsFrom(st, gs, 1)

(***************************************************************************)
(* Configurations and payloads used as inputs.                             *)
(***************************************************************************)
\* InstanceSeparator.__init__ with its defaults
DefaultSelf ==
    [tolerance |-> Rat(98, 100),
     require_same_material |-> TRUE,
     split_shells |-> TRUE,
     rebuild_instances |-> TRUE,
     template_position_tolerance |-> Rat(1, 10),
     template_rotation_tolerance |-> Rat(5, 1),
     derive_anchor_assemblies |-> TRUE,
     anchor_capture_multiplier |-> Rat(4, 1),
     collapse_rebuilt_assemblies |-> TRUE,
     _component_to_source |-> << >>,
     _source_world_mats |-> << >>]

\* tolerance 0.98 (the default) and 1.0 (exact)
Tolerances == {Rat(98, 100), Rat(100, 100)}

\* a payload as _build_payload returns it for an unparented, visible mesh
\* that is its own source (bbox_center is read by nothing and left out)
MakePayload(h, vc, size, mats, m) ==
    [transform |-> h, shape |-> h, matrix |-> m, bbox_size |-> size,
     materials |-> mats, parent |-> None, visibility |-> TRUE,
     vertex_count |-> vc, source_transform |-> h,
     local_matrix |-> MMatrix, world_position |-> m.t]

\* sizes 100-SizeSpread .. 100 on each axis, and 0 (flat geometry)
SizeSpread == 1

AxisSizes == {0} \cup ((100 - SizeSpread) .. 100)

Boxes == AxisSizes \X AxisSizes \X AxisSizes

(***************************************************************************)
(* SpecGeom: _geometry_matches applied to a pair of payloads, both ways.   *)
(***************************************************************************)
InitGeom ==
    /\ \E tol \in Tolerances \cup {Rat(99, 100)} : self = [DefaultSelf EXCEPT !.tolerance = tol]
    /\ \E sa \in Boxes, sb \in Boxes, vb \in {8, 12} :
          payloads = <<MakePayload(1, 8, sa, {}, MMatrix),
                       MakePayload(2, vb, sb, {}, MMatrix)>>
    /\ pc = "geom"
    /\ scene = << >>
    /\ nodes = << >>
    /\ selection = << >>
    /\ transforms = << >>
    /\ groups = << >>
    /\ assemblies = << >>
    /\ assembly_groups = << >>
    /\ result = NoResult
    /\ mutations = << >>
    /\ flaky = {}
    /\ run = 1
    /\ first = NoResult
    /\ verdict = None

ApplyGeometryMatches ==
    /\ pc = "geom"
    /\ verdict' = [ab |-> _geometry_matches(payloads[1], payloads[2]),
                   ba |-> _geometry_matches(payloads[2], payloads[1])]
    /\ pc' = "geom_done"
    /\ UNCHANGED <<self, scene, nodes, selection, transforms, payloads,
                   groups, assemblies, assembly_groups, result, mutations,
                   flaky, run, first>>

NextGeom == ApplyGeometryMatches

SpecGeom == InitGeom /\ [][NextGeom]_vars

\* C3: geometry_matches(a, b) = geometry_matches(b, a) for all payloads a, b
C3_GeometryMatchSymmetric ==
    pc = "geom_done" => verdict.ab = verdict.ba

C3_Witness ==
    /\ pc = "geom_done"
    /\ verdict.ab
    /\ payloads[1].bbox_size # payloads[2].bbox_size

\* the volume with each axis clamped below by the epsilon of the ratio
AxisClampedVolume(size) ==
    RatMul(RatMul(RatMax(Rat(size[1], 1), EpsAxis),
                  RatMax(Rat(size[2], 1), EpsAxis)),
           RatMax(Rat(size[3], 1), EpsAxis))

\* (axisSimilarity + volumeSimilarity) / 2 with that volume
AxisClampedSimilarity(size_a, size_b) ==
    RatMul(RatAdd(RatDiv(RatAdd(RatAdd(_ratio(Rat(size_a[1], 1),
                                              Rat(size_b[1], 1)),
                                       _ratio(Rat(size_a[2], 1),
                                              Rat(size_b[2], 1))),
                                _ratio(Rat(size_a[3], 1), Rat(size_b[3], 1))),
                         Rat(3, 1)),
                  RatSub(RatOne,
                         RatDiv(RatAbsDiff(AxisClampedVolume(size_a),
                                           AxisClampedVolume(size_b)),
                                RatMax(AxisClampedVolume(size_a),
                                       AxisClampedVolume(size_b))))),
           Rat(1, 2))

\* C23: for payloads of equal vertex count, _geometry_matches decides as
\* (axisSimilarity + volumeSimilarity) / 2 >= tolerance does with the volume
\* max(x, eps) * max(y, eps) * max(z, eps), flat boxes included
C23_VolumeClampedPerAxis ==
    (pc = "geom_done" /\ payloads[1].vertex_count = payloads[2].vertex_count)
        => verdict.ab = RatLeq(self.tolerance,
                               AxisClampedSimilarity(payloads[1].bbox_size,
                                                     payloads[2].bbox_size))

(***************************************************************************)
(* SpecGroup: _group_payloads applied to a sequence of payloads.           *)
(***************************************************************************)
MaxPayloads == 4

\* the cube of edge 100, the cube 1% smaller, a box 2% shorter on one axis,
\* the cube with another material and with another vertex count
Cube(edge) == <<edge, edge, edge>>

PayloadKinds ==
    {[vc |-> 8, size |-> Cube(100), mats |-> {"lambert1"}],
     [vc |-> 8, size |-> Cube(99), mats |-> {"lambert1"}],
     [vc |-> 8, size |-> <<98, 99, 99>>, mats |-> {"lambert1"}],
     [vc |-> 8, size |-> Cube(100), mats |-> {"blinn1"}],
     [vc |-> 12, size |-> Cube(100), mats |-> {"lambert1"}]}

KindPayloads(kinds) ==
    [i \in 1 .. Len(kinds) |->
        MakePayload(i, kinds[i].vc, kinds[i].size, kinds[i].mats, MMatrix)]

InitGroup ==
    /\ \E tol \in Tolerances, same \in BOOLEAN :
          self = [DefaultSelf EXCEPT !.tolerance = tol,
                                     !.require_same_material = same]
    /\ \E n \in 1 .. MaxPayloads : \E kinds \in [1 .. n -> PayloadKinds] :
          payloads = KindPayloads(kinds)
    /\ pc = "group"
    /\ scene = << >>
    /\ nodes = << >>
    /\ selection = << >>
    /\ transforms = << >>
    /\ groups = << >>
    /\ assemblies = << >>
    /\ assembly_groups = << >>
    /\ result = NoResult
    /\ mutations = << >>
    /\ flaky = {}
    /\ run = 1
    /\ first = NoResult
    /\ verdict = None

ApplyGroupPayloads ==
    /\ pc = "group"
    /\ groups' = _group_payloads(Ids(payloads))
    /\ pc' = "group_done"
    /\ UNCHANGED <<self, scene, nodes, selection, transforms, payloads,
                   assemblies, assembly_groups, result, mutations, flaky,
                   run, first, verdict>>

NextGroup == ApplyGroupPayloads

SpecGroup == InitGroup /\ [][NextGroup]_vars

\* the groups in which payload id is the prototype or a member, one entry
\* for each place it holds
PlacesOf(id) ==
    {<<g, k>> \in (1 .. Len(groups)) \X (1 .. Len(payloads)) :
        /\ k <= Len(all_payloads(groups[g]))
        /\ all_payloads(groups[g])[k] = id}

\* C1: _group_payloads partitions its input: every payload is in exactly one
\* group, as its prototype or as one of its members, and in it once; the
\* groups hold nothing but payloads of the input
C1_GroupsPartitionInput ==
    pc = "group_done" =>
        /\ \A id \in 1 .. Len(payloads) : Cardinality(PlacesOf(id)) = 1
        /\ \A g \in 1 .. Len(groups) :
              SeqRange(all_payloads(groups[g])) \subseteq 1 .. Len(payloads)

C1_Witness ==
    /\ pc = "group_done"
    /\ Len(payloads) = MaxPayloads
    /\ Len(groups) >= 2
    /\ \E g \in 1 .. Len(groups) : Len(groups[g].members) >= 2

\* materials-match AND geometry-match of payload id with the payload proto
MatchesPrototype(id, proto) ==
    /\ self.require_same_material => P(id).materials = P(proto).materials
    /\ _geometry_matches(P(id), P(proto))

\* the groups that exist when payload id is scanned and whose prototype it
\* matches: a group exists then iff its prototype comes earlier in the input
FittingGroups(id) ==
    {g \in 1 .. Len(groups) :
        groups[g].prototype < id /\ MatchesPrototype(id, groups[g].prototype)}

\* C2: grouping is first-fit in input order: a payload that matches the
\* prototype of an existing group is a member of the earliest-created such
\* group, and a payload that matches no existing group's prototype is the
\* prototype of a new group, created after the existing ones; with
\* require_same_material off only the geometry decides
C2_FirstFit ==
    pc = "group_done" =>
        /\ \A g \in 1 .. Len(groups) : \A h \in 1 .. Len(groups) :
              g < h => groups[g].prototype < groups[h].prototype
        /\ \A id \in 1 .. Len(payloads) :
              IF FittingGroups(id) = {}
              THEN \E g \in 1 .. Len(groups) : groups[g].prototype = id
              ELSE \E g \in FittingGroups(id) :
                      /\ \A h \in FittingGroups(id) : g <= h
                      /\ id \in SeqRange(groups[g].members)

\* a payload that fits two groups, and one that fits a group's member but
\* not its prototype
C2_Witness ==
    /\ pc = "group_done"
    /\ \E id \in 1 .. Len(payloads) : Cardinality(FittingGroups(id)) >= 2
    /\ \E id \in 1 .. Len(payloads) : \E g \in 1 .. Len(groups) :
          /\ groups[g].prototype < id
          /\ ~MatchesPrototype(id, groups[g].prototype)
          /\ \E m \in SeqRange(groups[g].members) :
                m < id /\ MatchesPrototype(id, m)

\* |a - b| is at most 1% of the larger of a and b
WithinOnePercent(a, b) == 100 * Abs(a - b) <= Max2(a, b)

BoxesWithinOnePercent(size_a, size_b) ==
    \A axis \in 1 .. 3 : WithinOnePercent(size_a[axis], size_b[axis])

SameCountAndMaterials(ids) ==
    \A i \in ids : \A j \in ids :
        /\ P(i).vertex_count = P(j).vertex_count
        /\ P(i).materials = P(j).materials

\* C9 (Scenario A): at tolerance 0.98, payloads of one vertex count and one
\* material set whose boxes are within 1% of each other on every axis all
\* join the first one's group: one group, every other payload a member (3
\* members for four payloads)
C9_ScenarioA ==
    ( /\ pc = "group_done"
      /\ self.tolerance = Rat(98, 100)
      /\ SameCountAndMaterials(1 .. Len(payloads))
      /\ \A i \in 1 .. Len(payloads) : \A j \in 1 .. Len(payloads) :
            BoxesWithinOnePercent(P(i).bbox_size, P(j).bbox_size) )
    => /\ Len(groups) = 1
       /\ groups[1].prototype = 1
       /\ groups[1].members = [k \in 1 .. Len(payloads) - 1 |-> k + 1]

C9_Witness ==
    /\ pc = "group_done"
    /\ self.tolerance = Rat(98, 100)
    /\ Len(payloads) = 4
    /\ SameCountAndMaterials(1 .. 4)
    /\ \A i \in 1 .. 4 : \A j \in 1 .. 4 :
          BoxesWithinOnePercent(P(i).bbox_size, P(j).bbox_size)
    /\ P(1).bbox_size # P(2).bbox_size
    /\ Len(groups) = 1
    /\ Len(groups[1].members) = 3

\* the outcome of Scenario B: payload odd alone in its group, the other
\* three in one group, a prototype and 2 members
SingletonAndThree(odd) ==
    /\ Len(groups) = 2
    /\ \E g \in 1 .. 2 : groups[g].prototype = odd /\ groups[g].members = << >>
    /\ \E g \in 1 .. 2 : groups[g].prototype # odd /\ Len(groups[g].members) = 2

ScenarioB ==
    /\ pc = "group_done"
    /\ self.tolerance = Rat(100, 100)
    /\ Len(payloads) = 4
    /\ SameCountAndMaterials(1 .. 4)

\* C10 (Scenario B), as the code has it: at tolerance 1.0, four payloads of
\* one vertex count and one material set, three of them with the same box
\* and one with a box that differs from it (by 2% on an axis, or by any
\* other amount), make the odd payload a singleton group and the other
\* three one group, a prototype and 2 members
C10_ScenarioB_SameBoxes ==
    \A odd \in 1 .. 4 :
        ( /\ ScenarioB
          /\ \A i \in (1 .. 4) \ {odd} : \A j \in (1 .. 4) \ {odd} :
                P(i).bbox_size = P(j).bbox_size
          /\ \A i \in (1 .. 4) \ {odd} : P(i).bbox_size # P(odd).bbox_size )
        => SingletonAndThree(odd)

C10_Witness ==
    /\ ScenarioB
    /\ P(1).bbox_size = Cube(100)
    /\ P(2).bbox_size = Cube(100)
    /\ P(3).bbox_size = Cube(100)
    /\ P(4).bbox_size = <<98, 99, 99>>
    /\ SingletonAndThree(4)

\* C10 (Scenario B), as stated: the three payloads are those of Scenario A,
\* within 1% of each other, and the odd one is 2% off on an axis
C10_ScenarioB_AsStated ==
    \A odd \in 1 .. 4 :
        ( /\ ScenarioB
          /\ \A i \in (1 .. 4) \ {odd} : \A j \in (1 .. 4) \ {odd} :
                BoxesWithinOnePercent(P(i).bbox_size, P(j).bbox_size)
          /\ \E i \in (1 .. 4) \ {odd} : \E axis \in 1 .. 3 :
                100 * Abs(P(i).bbox_size[axis] - P(odd).bbox_size[axis])
                    = 2 * Max2(P(i).bbox_size[axis], P(odd).bbox_size[axis])
          /\ \A i \in (1 .. 4) \ {odd} :
                ~BoxesWithinOnePercent(P(i).bbox_size, P(odd).bbox_size) )
        => SingletonAndThree(odd)
\* C15: the instance groups come in the order of first appearance: the
\* prototype of an earlier group is earlier in the input than the prototype
\* of a later one, a group's prototype is earlier in the input than its
\* members, and the members keep the order of the input
C15_GroupsInInputOrder ==
    pc = "group_done" =>
        /\ \A i \in 1 .. Len(groups) : \A j \in 1 .. Len(groups) :
              i < j => groups[i].prototype < groups[j].prototype
        /\ \A g \in 1 .. Len(groups) : \A k \in 1 .. Len(groups[g].members) :
              /\ groups[g].prototype < groups[g].members[k]
              /\ \A l \in 1 .. k - 1 :
                    groups[g].members[l] < groups[g].members[k]

\* two groups, the members of the first one after the second's prototype
C15_Witness ==
    /\ pc = "group_done"
    /\ Len(groups) = 2
    /\ groups[1].prototype = 1
    /\ groups[2].prototype = 2
    /\ groups[1].members = <<3, 4>>
    /\ groups[2].members = << >>

(***************************************************************************)
(* SpecAssembly: _build_assemblies, then _group_assemblies, applied to the *)
(* payloads of split shells.  Source 1 is an array along the axis: two     *)
(* occurrences of a bracket with two attachments, the second occurrence    *)
(* built less exactly than the first, and brackets without attachments.    *)
(* Sources 2 and 3 are two copies of a body with two wheels.               *)
(***************************************************************************)
\* at most this many brackets of source 1 have no attachments
MaxLone == 2

\* a component of a source: the payload _build_payload returns for the
\* shell h of source, the source's world matrix being source_matrix
MakePiece(h, source, source_matrix, kind, t, r) ==
    [transform |-> h, shape |-> h, matrix |-> [t |-> t, r |-> r],
     bbox_size |-> kind.size, materials |-> {"lambert1"}, parent |-> source,
     visibility |-> TRUE, vertex_count |-> kind.vc,
     source_transform |-> source,
     local_matrix |-> Matrices_mult(Matrices_inverse(source_matrix),
                                    [t |-> t, r |-> r]),
     world_position |-> t]

Bracket == [vc |-> 24, size |-> Cube(2)]

Bolt == [vc |-> 8, size |-> Cube(1)]

Clip == [vc |-> 6, size |-> Cube(1)]

Body == [vc |-> 12, size |-> Cube(3)]

\* [kind, t, r] of the components of source 1
ArrayLayout(lone, rival, second, off2, third2, rot2) ==
    <<[kind |-> Bracket, t |-> 0, r |-> 0],
      [kind |-> Bolt, t |-> 1, r |-> 0],
      [kind |-> second, t |-> 2, r |-> 0],
      [kind |-> Bracket, t |-> 100, r |-> 0],
      [kind |-> Bolt, t |-> 100 + off2, r |-> rot2],
      [kind |-> second, t |-> 100 + third2, r |-> 0]>>
    \o [k \in 1 .. lone |->
           [kind |-> Bracket,
            t |-> IF k = 1 /\ rival THEN 101 ELSE 1000 * k, r |-> 0]]

\* [kind, t, r] of the components of a body with two wheels placed at base
CarLayout(base, wheel2, swapped) ==
    IF swapped
    THEN <<[kind |-> Bolt, t |-> base + wheel2, r |-> 0],
           [kind |-> Body, t |-> base, r |-> 0],
           [kind |-> Bolt, t |-> base + 1, r |-> 0]>>
    ELSE <<[kind |-> Body, t |-> base, r |-> 0],
           [kind |-> Bolt, t |-> base + 1, r |-> 0],
           [kind |-> Bolt, t |-> base + wheel2, r |-> 0]>>

Reverse(seq) == [i \in 1 .. Len(seq) |-> seq[Len(seq) + 1 - i]]

Pieces(source, source_t, layout) ==
    [k \in 1 .. Len(layout) |->
        MakePiece(PieceHandle(source, k), source, [t |-> source_t, r |-> 0],
                  layout[k].kind, layout[k].t, layout[k].r)]

InitAssembly ==
    /\ \E tol \in {Rat(1, 10), Rat(1, 1)} :
          self = [DefaultSelf EXCEPT !.template_position_tolerance = tol]
    /\ \E lone \in 1 .. MaxLone, rival \in BOOLEAN, second \in {Bolt, Clip},
          off2 \in {1, 2, 3}, third2 \in {2, 3}, rot2 \in {0, 90},
          reversed \in BOOLEAN, wheel2 \in {1, 2}, swapped \in BOOLEAN :
          payloads =
              Pieces(1, 0,
                     IF reversed
                     THEN Reverse(ArrayLayout(lone, rival, second, off2,
                                              third2, rot2))
                     ELSE ArrayLayout(lone, rival, second, off2, third2, rot2))
              \o Pieces(2, 5000, CarLayout(5000, wheel2, FALSE))
              \o Pieces(3, 6000, CarLayout(6000, wheel2, swapped))
    /\ pc = "assemble"
    /\ scene = << >>
    /\ nodes = << >>
    /\ selection = << >>
    /\ transforms = << >>
    /\ groups = << >>
    /\ assemblies = << >>
    /\ assembly_groups = << >>
    /\ result = NoResult
    /\ mutations = << >>
    /\ flaky = {}
    /\ run = 1
    /\ first = NoResult
    /\ verdict = None

Assembled(built) ==
    IF built.raised
    THEN /\ pc' = "assembly_raised"
         /\ UNCHANGED assemblies
    ELSE /\ pc' = "assembly_built"
         /\ assemblies' = built.descriptors

ApplyBuildAssemblies ==
    /\ pc = "assemble"
    /\ Assembled(_build_assemblies(Ids(payloads)))
    /\ UNCHANGED <<self, scene, nodes, selection, transforms, payloads, groups,
                   assembly_groups, result, mutations, flaky, run, first,
                   verdict>>

AssembliesGrouped(grouped) ==
    /\ assemblies' = grouped.descs
    /\ assembly_groups' = grouped.groups

ApplyGroupAssemblies ==
    /\ pc = "assembly_built"
    /\ AssembliesGrouped(_group_assemblies(assemblies))
    /\ pc' = "assembly_grouped"
    /\ UNCHANGED <<self, scene, nodes, selection, transforms, payloads, groups,
                   result, mutations, flaky, run, first, verdict>>

NextAssembly == ApplyBuildAssemblies \/ ApplyGroupAssemblies

SpecAssembly == InitAssembly /\ [][NextAssembly]_vars

\* the slot ids of a template of n slots
SlotIds(n) == 0 .. n - 1

\* a mapping fills each slot of d's template with one component of d, and no
\* component fills two slots
SlotsOneToOne(d) ==
    /\ DOMAIN d.matched_slots = SlotIds(Len(d.components))
    /\ \A k \in DOMAIN d.matched_slots :
          d.matched_slots[k] \in SeqRange(d.components)
    /\ \A k \in DOMAIN d.matched_slots : \A l \in DOMAIN d.matched_slots :
          k # l => d.matched_slots[k] # d.matched_slots[l]

\* the descriptors an anchor derivation made for its anchors: their source
\* is the anchor's own transform
Derived(d) == d.source_transform = P(d.root_component).transform

\* C5: every mapping _match_anchor_to_template_slots and
\* _match_assembly_to_template produce gives each slot one payload and no
\* payload two slots, and the occurrences of one derivation share no
\* payload (nor do any two descriptors)
C5_SlotMatchingOneToOne ==
    /\ pc \in {"assembly_built", "assembly_grouped"} =>
          /\ \A i \in 1 .. Len(assemblies) :
                (assemblies[i].matched_slots # << >>) =>
                    SlotsOneToOne(assemblies[i])
          /\ \A i \in 1 .. Len(assemblies) : \A j \in 1 .. Len(assemblies) :
                i # j => SeqRange(assemblies[i].components)
                         \cap SeqRange(assemblies[j].components) = {}
          /\ \A i \in 1 .. Len(assemblies) :
                Cardinality(SeqRange(assemblies[i].components))
                    = Len(assemblies[i].components)
    /\ pc = "assembly_grouped" =>
          \A i \in 1 .. Len(assemblies) : SlotsOneToOne(assemblies[i])

\* two occurrences derived from one source, the second one matched with a
\* bolt off its slot's place while a rival bracket stands next to it, and a
\* copy of the body matched to the other one's template, wheels swapped
C5_Witness ==
    /\ pc = "assembly_grouped"
    /\ \E i \in 1 .. Len(assemblies) : \E j \in 1 .. Len(assemblies) :
          /\ i # j
          /\ Derived(assemblies[i]) /\ Derived(assemblies[j])
          /\ Len(assemblies[i].components) = 3
          /\ Len(assemblies[j].components) = 3
          /\ P(assemblies[j].root_component).world_position = 100
          /\ \E c \in SeqRange(assemblies[j].components) :
                P(c).world_position = 102 /\ P(c).vertex_count = Bolt.vc
    /\ \E c \in 1 .. Len(payloads) :
          P(c).world_position = 101 /\ P(c).vertex_count = Bracket.vc
    /\ \E g \in 1 .. Len(assembly_groups) :
          /\ assembly_groups[g].members # << >>
          /\ P(assemblies[assembly_groups[g].prototype].root_component)
                .vertex_count = Body.vc
          /\ payloads[Len(payloads) - 2].vertex_count = Bolt.vc

\* C21: _descriptor_from_slot_mapping never raises "Template slot missing
\* payload": _build_assemblies always returns, and the mapping of every
\* descriptor made from a slot mapping fills every slot of its template
C21_NoSlotMissingPayload ==
    /\ pc # "assembly_raised"
    /\ pc = "assembly_built" =>
          \A i \in 1 .. Len(assemblies) :
              Derived(assemblies[i]) =>
                  DOMAIN assemblies[i].matched_slots
                      = SlotIds(Len(assemblies[i].components))

\* two occurrences made from slot mappings, and an anchor left over whose
\* match failed for want of a candidate
C21_Witness ==
    /\ pc = "assembly_built"
    /\ Cardinality({i \in 1 .. Len(assemblies) :
                       /\ Derived(assemblies[i])
                       /\ assemblies[i].matched_slots # << >>
                       /\ Len(assemblies[i].components) >= 2}) >= 2
    /\ \E i \in 1 .. Len(assemblies) :
          /\ assemblies[i].matched_slots = << >>
          /\ \E c \in SeqRange(assemblies[i].components) :
                P(c).vertex_count = Bracket.vc

\* the descriptors made of the components of a source
BucketDescriptors(source) ==
    SelectSeq(assemblies,
              LAMBDA d : \E c \in SeqRange(d.components) :
                             P(c).source_transform = source)

\* in how many places of the descriptors' component lists a payload stands
TimesIn(ds, c) ==
    Cardinality({<<i, k>> \in (1 .. Len(ds)) \X (1 .. Len(payloads)) :
                    k <= Len(ds[i].components) /\ ds[i].components[k] = c})

BoundingVolume(c) == P(c).bbox_size[1] * P(c).bbox_size[2] * P(c).bbox_size[3]

\* occurrences first, two at least, then at most one descriptor of what is
\* left over
AcceptedAsStated(ds) ==
    \E n \in 2 .. Len(ds) :
        /\ Len(ds) \in {n, n + 1}
        /\ \A i \in 1 .. n : Derived(ds[i])
        /\ Len(ds) = n + 1 => ~Derived(ds[n + 1])

\* one descriptor of the whole bucket, its root of greatest volume
WholeBucketAsStated(ds, source) ==
    /\ Len(ds) = 1
    /\ ~Derived(ds[1])
    /\ ds[1].source_transform = source
    /\ \A c \in SeqRange(ds[1].components) :
           BoundingVolume(c) <= BoundingVolume(ds[1].root_component)

\* C26: a bucket's anchor derivation is accepted only with two occurrences
\* or more; then the bucket's descriptors are the occurrences plus at most
\* one fallback descriptor; if not, the bucket is one descriptor rooted at
\* its component of greatest volume; either way every component of the
\* bucket is in exactly one descriptor
C26_DerivationAcceptance ==
    pc = "assembly_built" =>
        /\ \A c \in 1 .. Len(payloads) : TimesIn(assemblies, c) = 1
        /\ \A source \in {P(c).source_transform : c \in 1 .. Len(payloads)} :
               \/ AcceptedAsStated(BucketDescriptors(source))
               \/ WholeBucketAsStated(BucketDescriptors(source), source)

\* the first bucket came out as occurrences and a fallback descriptor, the
\* second as one descriptor
C26_Witness ==
    /\ pc = "assembly_built"
    /\ AcceptedAsStated(BucketDescriptors(1))
    /\ ~Derived(BucketDescriptors(1)[Len(BucketDescriptors(1))])
    /\ WholeBucketAsStated(BucketDescriptors(2), 2)

(***************************************************************************)
(* SpecCars: _build_assemblies, then _group_assemblies, applied to the     *)
(* payloads of composite sources that are copies of one another: a body    *)
(* and two wheels each, placed alike relative to their source, the sources *)
(* 1000 apart, the components of each source in any order.                 *)
(***************************************************************************)
MaxCars == 3

\* the orders three components can come in
Orders ==
    {<<1, 2, 3>>, <<1, 3, 2>>, <<2, 1, 3>>, <<2, 3, 1>>, <<3, 1, 2>>,
     <<3, 2, 1>>}

\* the orders of the first source: its body first, in the middle, last
FirstOrders == {<<1, 2, 3>>, <<2, 1, 3>>, <<3, 2, 1>>}

\* the orders of n sources: any order for the second and the third, the
\* order of the first for the sources after them
OrderChoices(n) ==
    {o \in [1 .. n -> Orders] :
        o[1] \in FirstOrders /\ \A k \in 4 .. n : o[k] = o[1]}

\* a body no larger than a wheel
Hub == [vc |-> 12, size |-> Cube(1)]

\* [kind, t, r] of a body, wheelA and wheelB placed at base, in an order
WheeledLayout(base, body, wheelB, order) ==
    [k \in 1 .. 3 |->
        <<[kind |-> body, t |-> base, r |-> 0],
          [kind |-> Bolt, t |-> base + 1, r |-> 0],
          [kind |-> wheelB, t |-> base + 2, r |-> 0]>>[order[k]]]

\* the payloads of sources 1 .. n, three each; wheelB[k] is the second
\* wheel of source k
CarPayloads(n, body, wheelB, orders) ==
    [i \in 1 .. 3 * n |->
        Pieces((i - 1) \div 3 + 1, 1000 * ((i - 1) \div 3 + 1),
               WheeledLayout(1000 * ((i - 1) \div 3 + 1), body,
                             wheelB[(i - 1) \div 3 + 1],
                             orders[(i - 1) \div 3 + 1]))[((i - 1) % 3) + 1]]

\* the sources are copies of one another, or the last one has another
\* second wheel than the rest
WheelChoices(n) ==
    {w \in [1 .. n -> {Bolt, Clip}] : \A k \in 1 .. n - 1 : w[k] = w[1]}

InitCars ==
    /\ \E derive \in BOOLEAN :
          self = [DefaultSelf EXCEPT !.derive_anchor_assemblies = derive]
    /\ \E n \in 2 .. MaxCars, body \in {Body, Hub} :
          \E wheelB \in WheelChoices(n), orders \in OrderChoices(n) :
              payloads = CarPayloads(n, body, wheelB, orders)
    /\ pc = "assemble"
    /\ scene = << >>
    /\ nodes = << >>
    /\ selection = << >>
    /\ transforms = << >>
    /\ groups = << >>
    /\ assemblies = << >>
    /\ assembly_groups = << >>
    /\ result = NoResult
    /\ mutations = << >>
    /\ flaky = {}
    /\ run = 1
    /\ first = NoResult
    /\ verdict = None

SpecCars == InitCars /\ [][NextAssembly]_vars

\* the number of composite sources among the payloads
SourceCount ==
    Cardinality({payloads[i].source_transform : i \in 1 .. Len(payloads)})

\* one component of source 1 has a greater bounding volume than the others
LargestComponentUnique ==
    \E i \in 1 .. 3 : \A j \in (1 .. 3) \ {i} :
        ~RatLeq(_payload_volume(P(i)), _payload_volume(P(j)))

\* every source holds the components of source 1, placed as in source 1
\* relative to the source
ComponentsLike(k, id) ==
    {c \in {3 * k - 2, 3 * k - 1, 3 * k} :
        _assembly_component_signature(P(c)) = _assembly_component_signature(P(id))}

SameComponentSets ==
    \A k \in 1 .. SourceCount : \A id \in 1 .. Len(payloads) :
        Cardinality(ComponentsLike(k, id)) = Cardinality(ComponentsLike(1, id))

\* one descriptor per source and one assembly group holding them all
OneGroupOfAll ==
    /\ Len(assemblies) = SourceCount
    /\ Len(assembly_groups) = 1
    /\ Len(assembly_groups[1].template_slots) = 3
    /\ Len(assembly_groups[1].members) = SourceCount - 1

\* C11 (Scenario C), amended: N sources with the same three components
\* placed alike relative to their source, one component larger than the
\* other two, the components of each source in any order, give one
\* descriptor per source and exactly one assembly group, its template of 3
\* slots, its members the N-1 descriptors that are not the reference
C11_ScenarioC_LargestUnique ==
    (pc = "assembly_grouped" /\ SameComponentSets /\ LargestComponentUnique)
        => OneGroupOfAll

C11_Witness ==
    /\ pc = "assembly_grouped"
    /\ SourceCount = 3
    /\ SameComponentSets
    /\ LargestComponentUnique
    /\ self.derive_anchor_assemblies
    /\ payloads[1].vertex_count = Bolt.vc
    /\ payloads[4].vertex_count = Body.vc
    /\ payloads[6].vertex_count = Bolt.vc
    /\ OneGroupOfAll

\* C11 (Scenario C), as stated: the same for any three components, in any
\* component order
C11_ScenarioC_AnyOrder ==
    (pc = "assembly_grouped" /\ SameComponentSets) => OneGroupOfAll

\* the places descriptor d has in the assembly groups: <<g, 0>> as the
\* prototype of group g, <<g, k>> as its k-th member
GroupPlacesOf(d) ==
    {<<g, 0>> : g \in {h \in 1 .. Len(assembly_groups) :
                          assembly_groups[h].prototype = d}}
    \cup UNION {{<<g, k>> : k \in {j \in 1 .. Len(assembly_groups[g].members) :
                                      assembly_groups[g].members[j] = d}} :
                  g \in 1 .. Len(assembly_groups)}

\* every slot of group g's template holds a component of descriptor d that
\* has the slot's signature
FilledFromOwnComponents(g, d) ==
    /\ DOMAIN assemblies[d].matched_slots
          = {assembly_groups[g].template_slots[k].slot_id :
                k \in 1 .. Len(assembly_groups[g].template_slots)}
    /\ \A k \in 1 .. Len(assembly_groups[g].template_slots) :
          LET slot == assembly_groups[g].template_slots[k]
              c == assemblies[d].matched_slots[slot.slot_id]
          IN  /\ c \in SeqRange(assemblies[d].components)
              /\ _component_signature(P(c)) = slot.signature

\* group g is the group of a signature bucket: no earlier group's prototype
\* has its prototype's signature
BucketGroup(g) ==
    \A h \in 1 .. g - 1 :
        assemblies[assembly_groups[h].prototype].signature
            # assemblies[assembly_groups[g].prototype].signature

\* descriptor d is in the bucket of group g and cannot fill its template
Unmatched(g, d) ==
    /\ BucketGroup(g)
    /\ d # assembly_groups[g].prototype
    /\ assemblies[d].signature
          = assemblies[assembly_groups[g].prototype].signature
    /\ ~_match_assembly_to_template(assemblies[d],
                                    assembly_groups[g].template_slots).ok

\* descriptor d is the prototype of a group without members and the member
\* of no group
OwnTrivialGroup(d) ==
    /\ \E g \in 1 .. Len(assembly_groups) :
          /\ assembly_groups[g].prototype = d
          /\ assembly_groups[g].members = << >>
    /\ \A g \in 1 .. Len(assembly_groups) :
          d \notin SeqRange(assembly_groups[g].members)

\* C13: _group_assemblies places every descriptor in exactly one assembly
\* group; a member of a group has every slot of the group's template filled
\* from its own components; a descriptor that cannot fill the template of
\* its bucket's reference is no member and is the prototype of its own
\* group, which has no members
C13_DescriptorsInOneGroup ==
    pc = "assembly_grouped" =>
        /\ \A d \in 1 .. Len(assemblies) : Cardinality(GroupPlacesOf(d)) = 1
        /\ \A g \in 1 .. Len(assembly_groups) :
              \A d \in SeqRange(assembly_groups[g].members) :
                  FilledFromOwnComponents(g, d)
        /\ \A g \in 1 .. Len(assembly_groups) :
              \A d \in 1 .. Len(assemblies) :
                  Unmatched(g, d) => OwnTrivialGroup(d)

\* three sources: the third one matched to the first one's template, the
\* second one orphaned
C13_Witness ==
    /\ pc = "assembly_grouped"
    /\ Len(assemblies) = 3
    /\ Len(assembly_groups) = 2
    /\ assembly_groups[1].prototype = 1
    /\ assembly_groups[1].members = <<3>>
    /\ Unmatched(1, 2)
    /\ assembly_groups[2].prototype = 2
    /\ assembly_groups[2].members = << >>

\* C16: the assembly groups come in the order of first appearance: the
\* prototype of an earlier group is an earlier descriptor than the
\* prototype of a later group, the groups of orphaned descriptors included
C16_AssemblyGroupsInOrder ==
    pc = "assembly_grouped" =>
        \A i \in 1 .. Len(assembly_groups) :
            \A j \in 1 .. Len(assembly_groups) :
                i < j => assembly_groups[i].prototype
                             < assembly_groups[j].prototype

(***************************************************************************)
(* SpecPairs: _build_assemblies, then _group_assemblies, applied to the    *)
(* payloads of one source that holds repeated pairs: a bracket and an      *)
(* attachment at the same offset from it, the brackets a fixed step apart. *)
(***************************************************************************)
MaxPairs == 3

\* [kind, t, r] of pair k: its bracket, then its attachment
PairLayout(k, step, offset, attachment) ==
    <<[kind |-> Bracket, t |-> 100 + step * k, r |-> 0],
      [kind |-> attachment, t |-> 100 + step * k + offset, r |-> 0]>>

\* the pairs one after the other, or the brackets first and then the
\* attachments
PairsLayout(n, step, offset, attachment, interleaved) ==
    IF interleaved
    THEN [i \in 1 .. 2 * n |->
             PairLayout((i + 1) \div 2, step, offset, attachment)[2 - (i % 2)]]
    ELSE [i \in 1 .. 2 * n |->
             IF i <= n THEN PairLayout(i, step, offset, attachment)[1]
             ELSE PairLayout(i - n, step, offset, attachment)[2]]

InitPairs ==
    /\ \E tol \in {Rat(1, 10), Rat(1, 1)}, derive \in BOOLEAN :
          self = [DefaultSelf EXCEPT !.template_position_tolerance = tol,
                                     !.derive_anchor_assemblies = derive]
    /\ \E n \in 2 .. MaxPairs, step \in {5, 10, 100}, offset \in {-2, -1, 1, 2},
          attachment \in {Bolt, Clip}, interleaved \in BOOLEAN,
          reversed \in BOOLEAN :
          payloads =
              Pieces(1, 0,
                     IF reversed
                     THEN Reverse(PairsLayout(n, step, offset, attachment,
                                              interleaved))
                     ELSE PairsLayout(n, step, offset, attachment,
                                      interleaved))
    /\ pc = "assemble"
    /\ scene = << >>
    /\ nodes = << >>
    /\ selection = << >>
    /\ transforms = << >>
    /\ groups = << >>
    /\ assemblies = << >>
    /\ assembly_groups = << >>
    /\ result = NoResult
    /\ mutations = << >>
    /\ flaky = {}
    /\ run = 1
    /\ first = NoResult
    /\ verdict = None

SpecPairs == InitPairs /\ [][NextAssembly]_vars

\* C12 (Scenario D): a bucket of 6 components forming 3 repeated pairs,
\* anchor derivation enabled, gives 3 descriptors of 2 components each
C12_ScenarioD ==
    ( /\ pc \in {"assembly_built", "assembly_grouped"}
      /\ Len(payloads) = 6
      /\ self.derive_anchor_assemblies )
    => /\ Len(assemblies) = 3
       /\ \A d \in 1 .. 3 : Len(assemblies[d].components) = 2

(***************************************************************************)
(* SpecRadius: _select_anchor_payloads, then _anchor_capture_radius and    *)
(* _build_anchor_template_slots for the first anchor, as                   *)
(* _derive_anchor_assemblies calls them, applied to one bucket of brackets *)
(* and bolts, some of them in one place.                                   *)
(***************************************************************************)
MaxBucket == 4

\* where the components of the bucket stand
BucketPlaces == {0, 1, 5}

\* the layouts of n components, two of them at least of one kind
BucketLayouts(n) ==
    {layout \in [1 .. n -> [kind : {Bracket, Bolt}, t : BucketPlaces, r : {0}]] :
        \E i \in 1 .. n : \E j \in 1 .. n :
            i # j /\ layout[i].kind = layout[j].kind}

InitRadius ==
    /\ \E multiplier \in {Rat(4, 1), Rat(1, 10)}, tol \in {Rat(1, 10), Rat(1, 1)} :
          self = [DefaultSelf EXCEPT !.anchor_capture_multiplier = multiplier,
                                     !.template_position_tolerance = tol]
    /\ \E n \in 2 .. MaxBucket : \E layout \in BucketLayouts(n) :
          payloads = Pieces(1, 0, layout)
    /\ pc = "radius"
    /\ scene = << >>
    /\ nodes = << >>
    /\ selection = << >>
    /\ transforms = << >>
    /\ groups = << >>
    /\ assemblies = << >>
    /\ assembly_groups = << >>
    /\ result = NoResult
    /\ mutations = << >>
    /\ flaky = {}
    /\ run = 1
    /\ first = NoResult
    /\ verdict = None

\* _derive_anchor_assemblies, lines 410-421, and _derive_from_template_anchor,
\* lines 436-438, for the first anchor
CapturedFor(anchors, components) ==
    [anchor |-> anchors[1],
     assembly_count |-> Len(anchors),
     radius |-> _anchor_capture_radius(anchors[1], components, Len(anchors)),
     template_slots |->
        _build_anchor_template_slots(anchors[1], components, Len(anchors))]

ApplyCaptureRadius ==
    /\ pc = "radius"
    /\ verdict' = CapturedFor(_select_anchor_payloads(Ids(payloads)),
                              Ids(payloads))
    /\ pc' = "radius_done"
    /\ UNCHANGED <<self, scene, nodes, selection, transforms, payloads,
                   groups, assemblies, assembly_groups, result, mutations,
                   flaky, run, first>>

NextRadius == ApplyCaptureRadius

SpecRadius == InitRadius /\ [][NextRadius]_vars

\* the distance from the anchor to its k-th nearest other component,
\* k = ceil(bucket size / anchor count) clamped to the number of the others,
\* plus the position tolerance
StatedNeighborRadius(anchor, assembly_count) ==
    RatAdd(
        Rat(SortInts([i \in 1 .. Len(payloads) - 1 |->
                        _payload_distance(
                            P(anchor),
                            P(SelectSeq(Ids(payloads),
                                        LAMBDA c : c # anchor)[i]))])
                [Min2(CeilDiv(Len(payloads), assembly_count),
                      Len(payloads) - 1)], 1),
        self.template_position_tolerance)

\* max(longest axis * multiplier, neighbor radius)
StatedCaptureRadius(anchor, assembly_count) ==
    RatMax(RatMul(Rat(Max2(Max2(P(anchor).bbox_size[1], P(anchor).bbox_size[2]),
                           P(anchor).bbox_size[3]), 1),
                  self.anchor_capture_multiplier),
           StatedNeighborRadius(anchor, assembly_count))

\* C24: the capture radius of a template anchor is max(longest axis of the
\* anchor * anchor_capture_multiplier, neighbor radius) and nothing else
\* bounds it from below, and the template holds exactly the components of
\* the bucket no farther from the anchor than that
C24_CaptureRadius ==
    pc = "radius_done" =>
        /\ RatLeq(verdict.radius,
                  StatedCaptureRadius(verdict.anchor, verdict.assembly_count))
        /\ RatLeq(StatedCaptureRadius(verdict.anchor, verdict.assembly_count),
                  verdict.radius)
        /\ [k \in 1 .. Len(verdict.template_slots) |->
               verdict.template_slots[k].prototype_payload]
             = SelectSeq(
                   Ids(payloads),
                   LAMBDA c :
                       RatLeq(Rat(_payload_distance(P(verdict.anchor), P(c)), 1),
                              StatedCaptureRadius(verdict.anchor,
                                                  verdict.assembly_count)))

(***************************************************************************)
(* SpecMatch: the two greedy matchers as their callers call them.  One     *)
(* bucket holds four brackets and four bolts: the first bracket and two    *)
(* bolts are the template, _derive_from_template_anchor then tries the     *)
(* other brackets in turn against the shared pool.  Two more sources are   *)
(* a body with two bolts each: _group_assemblies matches the second to     *)
(* the template of the first.  An attempt is [root, pool, m]: the payload  *)
(* whose matrix is the root matrix, the pool before the call, and what     *)
(* the call returned.                                                      *)
(***************************************************************************)
MaxOffset == 7

\* [kind, t, r] of the bucket: the template at 0, two brackets at 100 and
\* 100 + gap with two bolts near them, and a bracket far away
MatchLayout(a1, b1, r1, b2, gap) ==
    <<[kind |-> Bracket, t |-> 0, r |-> 0],
      [kind |-> Bolt, t |-> a1, r |-> 0],
      [kind |-> Bolt, t |-> 6, r |-> 0],
      [kind |-> Bracket, t |-> 100, r |-> 0],
      [kind |-> Bolt, t |-> 100 + b1, r |-> r1],
      [kind |-> Bolt, t |-> 100 + b2, r |-> 0],
      [kind |-> Bracket, t |-> 100 + gap, r |-> 0],
      [kind |-> Bracket, t |-> 1000, r |-> 0]>>

InitMatch ==
    /\ \E tol \in {Rat(1, 10), Rat(1, 1), Rat(2, 1), Rat(4, 1)} :
          self = [DefaultSelf EXCEPT !.template_position_tolerance = tol]
    /\ \E b1 \in 1 .. MaxOffset, r1 \in {0, 3, 357}, b2 \in 1 .. MaxOffset,
          gap \in {-1, 50}, swapped \in BOOLEAN :
          payloads =
              Pieces(1, 0, MatchLayout(IF swapped THEN 4 ELSE 2, b1, r1, b2,
                                       gap))
              \o Pieces(2, 5000, CarLayout(5000, 2, FALSE))
              \o Pieces(3, 6000, CarLayout(6000, 2, swapped))
    /\ pc = "match"
    /\ scene = << >>
    /\ nodes = << >>
    /\ selection = << >>
    /\ transforms = << >>
    /\ groups = << >>
    /\ assemblies = << >>
    /\ assembly_groups = << >>
    /\ result = NoResult
    /\ mutations = << >>
    /\ flaky = {}
    /\ run = 1
    /\ first = NoResult
    /\ verdict = None

\* the payloads of a source, in the order of payloads
ComponentsOf(source) ==
    SelectSeq(Ids(payloads), LAMBDA c : P(c).source_transform = source)

\* the loop of lines 465-481 with every call of
\* _match_anchor_to_template_slots written down
RECURSIVE AnchorAttemptsFrom(_, _, _, _, _, _)
AnchorAttemptsTake(anchors, i, template_anchor, template_slots, availability, m, out) ==
    AnchorAttemptsFrom(anchors, i + 1, template_anchor, template_slots,
                       m.availability,
                       Append(out, [root |-> anchors[i], pool |-> availability,
                                    m |-> m]))

AnchorAttemptsFrom(anchors, i, template_anchor, template_slots, availability, out) ==
    IF i > Len(anchors) THEN out
    ELSE IF anchors[i] = template_anchor
         THEN AnchorAttemptsFrom(anchors, i + 1, template_anchor,
                                 template_slots, availability, out)
    ELSE AnchorAttemptsTake(
             anchors, i, template_anchor, template_slots, availability,
             _match_anchor_to_template_slots(anchors[i], template_slots,
                                             availability),
             out)

\* _derive_from_template_anchor, lines 436-481, for the first anchor
AnchorAttemptsWith(anchors, components, template_slots) ==
    [kind |-> "anchor",
     template_slots |-> template_slots,
     attempts |->
        IF \/ Len(template_slots) <= 1
           \/ Len(RootSlots(anchors[1], template_slots)) # 1
        THEN << >>
        ELSE AnchorAttemptsFrom(
                 anchors, 1, anchors[1], template_slots,
                 _build_anchor_availability(
                     components,
                     {template_slots[k].prototype_payload :
                         k \in 1 .. Len(template_slots)},
                     anchors),
                 << >>)]

AnchorAttempts(anchors, components) ==
    AnchorAttemptsWith(anchors, components,
                       _build_anchor_template_slots(anchors[1], components,
                                                    Len(anchors)))

ApplyMatchAnchors ==
    /\ pc = "match"
    /\ verdict' = AnchorAttempts(_select_anchor_payloads(ComponentsOf(1)),
                                 ComponentsOf(1))
    /\ pc' = "anchors_matched"
    /\ UNCHANGED <<self, scene, nodes, selection, transforms, payloads,
                   groups, assemblies, assembly_groups, result, mutations,
                   flaky, run, first>>

\* _group_assemblies, lines 701-715, for a reference and one descriptor of
\* its bucket
AssemblyAttemptWith(descriptor, template_slots) ==
    [kind |-> "descriptor",
     template_slots |-> template_slots,
     attempts |->
        <<[root |-> descriptor.root_component,
           pool |-> descriptor.components,
           m |-> _match_assembly_to_template(descriptor, template_slots)]>>]

AssemblyAttempt(reference, descriptor) ==
    AssemblyAttemptWith(descriptor, _build_template_slots(reference))

ApplyMatchAssembly ==
    /\ pc = "match"
    /\ _descriptor_from_components(2, ComponentsOf(2)).signature
         = _descriptor_from_components(3, ComponentsOf(3)).signature
    /\ verdict' = AssemblyAttempt(
                      _descriptor_from_components(2, ComponentsOf(2)),
                      _descriptor_from_components(3, ComponentsOf(3)))
    /\ pc' = "assembly_matched"
    /\ UNCHANGED <<self, scene, nodes, selection, transforms, payloads,
                   groups, assemblies, assembly_groups, result, mutations,
                   flaky, run, first>>

NextMatch == ApplyMatchAnchors \/ ApplyMatchAssembly

SpecMatch == InitMatch /\ [][NextMatch]_vars

\* the attempts written down by the step taken
Attempts == IF pc \in {"anchors_matched", "assembly_matched"}
            THEN verdict.attempts ELSE << >>

\* the slots the matcher fills from the pool, in the order it fills them:
\* all of them for a descriptor, all but the root slot for an anchor
PoolSlots ==
    SelectSeq(verdict.template_slots,
              LAMBDA sl : verdict.kind = "descriptor" \/ ~sl.is_root)

\* |translation of the payload relative to the root - translation of the
\* slot|
TranslationDelta(a, c, sl) ==
    Abs(_relative_matrix(P(a.root).matrix, P(c).matrix).t
        - sl.reference_matrix.t)

\* the angle between the payload's rotation relative to the root and the
\* slot's, wrapped into [-180, 180], without its sign
RotationDelta(a, c, sl) ==
    LET d == (_relative_matrix(P(a.root).matrix, P(c).matrix).r
              - sl.reference_matrix.r) % 360
    IN  IF d > 180 THEN 360 - d ELSE d

\* same geometry signature and both hard gates
Eligible(a, c, sl) ==
    /\ <<P(c).vertex_count, P(c).bbox_size, P(c).materials>> = sl.signature
    /\ RatLeq(Rat(TranslationDelta(a, c, sl), 1),
              self.template_position_tolerance)
    /\ RatLeq(Rat(RotationDelta(a, c, sl), 1),
              self.template_rotation_tolerance)

\* translationDelta + rotationDelta / rotationTolerance
StatedScore(a, c, sl) ==
    RatAdd(Rat(TranslationDelta(a, c, sl), 1),
           RatDiv(Rat(RotationDelta(a, c, sl), 1),
                  self.template_rotation_tolerance))

\* c comes before e in the order the greedy choice prefers: lower score,
\* or the same score and earlier in the pool
Preferred(a, c, e, sl) ==
    \/ ~RatLeq(StatedScore(a, e, sl), StatedScore(a, c, sl))
    \/ /\ RatLeq(StatedScore(a, c, sl), StatedScore(a, e, sl))
       /\ \E i \in 1 .. Len(a.pool) : \E j \in i + 1 .. Len(a.pool) :
              a.pool[i] = c /\ a.pool[j] = e

\* f gives the first k pool slots the payloads the greedy rule gives them:
\* each is eligible, still in the pool, and preferred to every other
\* eligible payload still in the pool
GreedyPrefix(a, f, k) ==
    \A i \in 1 .. k :
        /\ f[i] \in SeqRange(a.pool) \ {f[j] : j \in 1 .. i - 1}
        /\ Eligible(a, f[i], PoolSlots[i])
        /\ \A e \in SeqRange(a.pool) \ {f[j] : j \in 1 .. i} :
               Eligible(a, e, PoolSlots[i])
                   => Preferred(a, f[i], e, PoolSlots[i])

\* no payload still in the pool after f is eligible for pool slot k + 1
NoneEligible(a, f, k) ==
    \A e \in SeqRange(a.pool) \ {f[j] : j \in 1 .. k} :
        ~Eligible(a, e, PoolSlots[k + 1])

\* the payloads a successful attempt gave the pool slots, in their order
ChosenOf(a) == [i \in 1 .. Len(PoolSlots) |-> a.m.map[PoolSlots[i].slot_id]]

MatchedAsStated(a) ==
    /\ DOMAIN a.m.map = {verdict.template_slots[i].slot_id :
                            i \in 1 .. Len(verdict.template_slots)}
    /\ \A i \in 1 .. Len(verdict.template_slots) :
           Eligible(a, a.m.map[verdict.template_slots[i].slot_id],
                    verdict.template_slots[i])
    /\ GreedyPrefix(a, ChosenOf(a), Len(PoolSlots))
    /\ verdict.kind = "anchor" =>
           a.m.availability
             = SelectSeq(a.pool, LAMBDA c : c \notin SeqRange(ChosenOf(a)))

FailedAsStated(a) ==
    \E k \in 0 .. Len(PoolSlots) - 1 :
        \E f \in [1 .. k -> SeqRange(a.pool)] :
            GreedyPrefix(a, f, k) /\ NoneEligible(a, f, k)

CompleteGated(a) ==
    {f \in [1 .. Len(PoolSlots) -> SeqRange(a.pool)] :
        /\ \A i \in 1 .. Len(PoolSlots) : \A j \in 1 .. Len(PoolSlots) :
               i # j => f[i] # f[j]
        /\ \A i \in 1 .. Len(PoolSlots) : Eligible(a, f[i], PoolSlots[i])}

\* the sum of the scores of the slots from i on
RECURSIVE TotalScoreFrom(_, _, _)
TotalScoreFrom(a, f, i) ==
    IF i > Len(PoolSlots) THEN Rat(0, 1)
    ELSE RatAdd(StatedScore(a, f[i], PoolSlots[i]),
                TotalScoreFrom(a, f, i + 1))

TotalScore(a, f) == TotalScoreFrom(a, f, 1)

\* C27: greedy matching is locally good but not globally optimal: what it
\* returns is a complete gated assignment whose first slot has the lowest
\* score any such assignment gives that slot, and there are a template and
\* a pool for which its total score is strictly above that of another
\* complete gated assignment (the witness)
C27_GreedyLocallyGood ==
    \A n \in 1 .. Len(Attempts) :
        Attempts[n].m.ok =>
            /\ ChosenOf(Attempts[n]) \in CompleteGated(Attempts[n])
            /\ \A f \in CompleteGated(Attempts[n]) :
                   Len(PoolSlots) > 0 =>
                          RatLeq(StatedScore(Attempts[n],
                                             ChosenOf(Attempts[n])[1],
                                             PoolSlots[1]),
                                 StatedScore(Attempts[n], f[1], PoolSlots[1]))

\* an anchor was matched completely at a total score above that of another
\* complete gated assignment of the same pool
C27_Witness ==
    /\ pc = "anchors_matched"
    /\ \E n \in 1 .. Len(Attempts) :
           /\ Attempts[n].m.ok
           /\ \E f \in CompleteGated(Attempts[n]) :
                  ~RatLeq(TotalScore(Attempts[n], ChosenOf(Attempts[n])),
                          TotalScore(Attempts[n], f))

\* C29: a failed per-anchor match consumes nothing: the shared pool after
\* the attempt is the pool before it, so the payloads chosen for the
\* anchor's earlier slots stay available to the anchors tried afterwards
C29_FailedMatchConsumesNothing ==
    pc = "anchors_matched" =>
        \A n \in 1 .. Len(Attempts) :
            /\ ~Attempts[n].m.ok => Attempts[n].m.availability = Attempts[n].pool
            /\ n > 1 /\ ~Attempts[n - 1].m.ok
                   => Attempts[n].pool = Attempts[n - 1].pool

\* no payload of the pool is eligible for two pool slots
NoSharedCandidate(a) ==
    \A c \in SeqRange(a.pool) :
        \A i \in 1 .. Len(PoolSlots) : \A j \in 1 .. Len(PoolSlots) :
            (Eligible(a, c, PoolSlots[i]) /\ Eligible(a, c, PoolSlots[j]))
                => i = j

\* C30 as stated: whenever some complete one-to-one assignment of the
\* pool's payloads to the slots keeps the signature and both gates, greedy
\* matching returns a complete assignment too
C30_GreedyComplete ==
    \A n \in 1 .. Len(Attempts) :
        CompleteGated(Attempts[n]) # {} => Attempts[n].m.ok

\* C30: greedy matching is complete with respect to the gates where no
\* payload is eligible for two slots: if a complete gated assignment exists
\* then, greedy matching returns one; and it never returns a complete
\* assignment where none exists
C30_GreedyCompleteWhenUnambiguous ==
    \A n \in 1 .. Len(Attempts) :
        /\ (NoSharedCandidate(Attempts[n]) /\ CompleteGated(Attempts[n]) # {})
               => Attempts[n].m.ok
        /\ CompleteGated(Attempts[n]) = {} => ~Attempts[n].m.ok

\* an anchor with two pool slots was matched out of a pool no payload of
\* which was eligible for both, one of them turned by 357 degrees
C30_Witness ==
    /\ pc = "anchors_matched"
    /\ Len(PoolSlots) = 2
    /\ NoSharedCandidate(Attempts[1])
    /\ CompleteGated(Attempts[1]) # {}
    /\ Attempts[1].m.ok
    /\ \E c \in SeqRange(Attempts[1].pool) : P(c).matrix.r = 357

(***************************************************************************)
(* Spec: separate called on a scene, and called a second time with the     *)
(* same argument once the first call has returned or raised.               *)
(***************************************************************************)
MaxHandles == 3

\* at most this many handles have a world matrix read that raises
MaxFlaky == 1

Node(mesh, shells, vc, size, mats, t, parent) ==
    [mesh |-> mesh, shells |-> shells, vertex_count |-> vc,
     bbox_size |-> size, materials |-> mats, matrix |-> [t |-> t, r |-> 0],
     parent |-> parent, visibility |-> TRUE]

\* a wheel and a body, the two shells of one mesh
WheelAndBody ==
    <<[vertex_count |-> 8, bbox_size |-> Cube(1), offset |-> 0],
      [vertex_count |-> 24, bbox_size |-> Cube(2), offset |-> 3]>>

\* a locator, two cubes within 1% of each other, the second one moved, and
\* two copies of a two-shell mesh, the second one moved and under a group
NodeKinds ==
    {Node(FALSE, << >>, 0, Cube(0), {}, 3, None),
     Node(TRUE, << >>, 8, Cube(100), {"lambert1"}, 0, None),
     Node(TRUE, << >>, 8, Cube(99), {"lambert1"}, 5, None),
     Node(TRUE, WheelAndBody, 32, <<5, 2, 2>>, {"lambert1"}, 0, None),
     Node(TRUE, WheelAndBody, 32, <<5, 2, 2>>, {"lambert1"}, 7, "group1")}

\* the third node: a cube, or a two-shell mesh; the nodes after it are
\* copies of it
LaterKinds ==
    {Node(TRUE, << >>, 8, Cube(100), {"lambert1"}, 0, None),
     Node(TRUE, WheelAndBody, 32, <<5, 2, 2>>, {"lambert1"}, 7, "group1")}

Init ==
    /\ \E n \in 0 .. MaxHandles :
          /\ scene \in {sc \in [1 .. n -> NodeKinds] :
                          /\ \A k \in 3 .. n : sc[k] \in LaterKinds
                          /\ \A k \in 4 .. n : sc[k] = sc[3]}
          /\ selection = [i \in 1 .. n |-> i]
          /\ flaky \in {F \in SUBSET (1 .. n) : Cardinality(F) <= MaxFlaky}
    /\ nodes \in {<< >>, selection}
    /\ \E split \in BOOLEAN, rebuild \in BOOLEAN :
          self = [DefaultSelf EXCEPT !.split_shells = split,
                                     !.rebuild_instances = rebuild]
    /\ pc = "start"
    /\ transforms = << >>
    /\ payloads = << >>
    /\ groups = << >>
    /\ assemblies = << >>
    /\ assembly_groups = << >>
    /\ result = NoResult
    /\ mutations = << >>
    /\ run = 1
    /\ first = NoResult
    /\ verdict = None

\* "if not payloads" that never finds the list empty
NoPayloads_never(built_payloads) == FALSE

\* separate, line 195: "if not payloads"
NoPayloads(built_payloads) == built_payloads = << >>

\* separate, lines 181-188: normalize, reset the registries and register
Begin ==
    /\ pc = "start"
    /\ LET ts == _normalize_nodes(nodes)
       IN  IF ts = << >>
           THEN /\ pc' = "raised"
                /\ verdict' = "No transforms supplied"
                /\ UNCHANGED <<self, transforms>>
           ELSE LET reg == RegisterAllFrom([c2s |-> << >>, mats |-> << >>],
                                           ts, 1)
                IN  /\ self' = [self EXCEPT !._component_to_source = reg.c2s,
                                            !._source_world_mats = reg.mats]
                    /\ transforms' = ts
                    /\ pc' = IF self.split_shells THEN "expand" ELSE "build"
                    /\ UNCHANGED verdict
    /\ UNCHANGED <<scene, nodes, selection, payloads, groups, assemblies,
                   assembly_groups, result, mutations, flaky, run, first>>

\* separate, lines 190-191
ExpandShells ==
    /\ pc = "expand"
    /\ LET ex == _expand_shells(transforms)
       IN  /\ scene' = ex.scene
           /\ self' = [self EXCEPT !._component_to_source = ex.reg.c2s,
                                   !._source_world_mats = ex.reg.mats]
           /\ transforms' = ex.expanded
           /\ mutations' =
                 mutations \o
                 [k \in 1 .. Len(ex.mutations) |->
                     [op |-> ex.mutations[k].op, node |-> ex.mutations[k].node,
                      failed |-> FALSE, phase |-> "discovery", run |-> run]]
    /\ pc' = "build"
    /\ UNCHANGED <<nodes, selection, payloads, groups, assemblies,
                   assembly_groups, result, flaky, run, first, verdict>>

\* separate, lines 193-198; a query of _build_payload may raise
BuildPayloads ==
    /\ pc = "build"
    /\ \E provider_raises \in BOOLEAN :
          IF provider_raises
          THEN /\ \E i \in 1 .. Len(transforms) : scene[transforms[i]].mesh
               /\ pc' = "raised"
               /\ verdict' = "Geometry provider error"
               /\ UNCHANGED <<self, payloads>>
          ELSE LET built == BuildPayloadsFrom(
                               [payloads |-> << >>,
                                mats |-> self._source_world_mats],
                               transforms, 1)
               IN  /\ self' = [self EXCEPT !._source_world_mats = built.mats]
                   /\ IF NoPayloads(built.payloads)
                      THEN /\ pc' = "raised"
                           /\ verdict' = "No mesh payloads discovered"
                           /\ UNCHANGED payloads
                      ELSE /\ pc' = "discover"
                           /\ payloads' = built.payloads
                           /\ UNCHANGED verdict
    /\ UNCHANGED <<scene, nodes, selection, transforms, groups, assemblies,
                   assembly_groups, result, mutations, flaky, run, first>>

\* separate, lines 204-209: the result
InstanceSeparationResult(gs, payload_count, grouped) ==
    [groups |-> gs, payload_count |-> payload_count,
     assemblies |-> grouped.descs, assembly_groups |-> grouped.groups]

\* separate, lines 200-209, once _build_assemblies has returned or raised
Discovered(built) ==
    IF built.raised THEN [raised |-> TRUE, result |-> NoResult]
    ELSE [raised |-> FALSE,
          result |-> InstanceSeparationResult(
                         _group_payloads(Ids(payloads)), Len(payloads),
                         _group_assemblies(built.descriptors))]

Returned(discovered) ==
    IF discovered.raised
    THEN /\ pc' = "raised"
         /\ verdict' = "Template slot missing payload"
         /\ UNCHANGED <<groups, assemblies, assembly_groups, result>>
    ELSE /\ groups' = discovered.result.groups
         /\ assemblies' = discovered.result.assemblies
         /\ assembly_groups' = discovered.result.assembly_groups
         /\ result' = discovered.result
         /\ pc' = IF self.rebuild_instances THEN "rebuild" ELSE "returned"
         /\ UNCHANGED verdict

\* separate, lines 200-209 and 214
Discover ==
    /\ pc = "discover"
    /\ Returned(Discovered(_build_assemblies(Ids(payloads))))
    /\ UNCHANGED <<self, scene, nodes, selection, transforms, payloads,
                   mutations, flaky, run, first>>

\* the requests that can be made to raise RuntimeError, and None: none does
Faults ==
    {None, "instance", "bake", "parent", "setVisibility", "delete", "rename",
     "polyUnite", "deleteHistory", "makeIdentity"}

\* the state the rebuild starts in
RebuildStart(fault) ==
    [scene |-> scene, payloads |-> payloads, assemblies |-> assemblies,
     c2s |-> self._component_to_source, mats |-> self._source_world_mats,
     log |-> << >>, failed |-> FALSE, raised |-> FALSE, fault |-> fault]

\* separate, lines 214-217, done being the state the rebuild ends in
Rebuilt(done) ==
    /\ scene' = done.scene
    /\ payloads' = done.payloads
    /\ assemblies' = done.assemblies
    /\ self' = [self EXCEPT !._component_to_source = done.c2s,
                            !._source_world_mats = done.mats]
    /\ mutations' =
          mutations \o
          [k \in 1 .. Len(done.log) |->
              [op |-> done.log[k].op, node |-> done.log[k].node,
               failed |-> done.log[k].failed, phase |-> "rebuild",
               run |-> run]]
    /\ IF done.raised
       THEN /\ pc' = "rebuild_raised"
            /\ verdict' = "Scene mutation error"
            /\ result' = NoResult
       ELSE /\ pc' = "rebuilt"
            /\ result' = [result EXCEPT !.assemblies = done.assemblies]
            /\ UNCHANGED verdict

\* separate, lines 214-217: the rebuild of the instantiable assembly groups
Rebuild ==
    /\ pc = "rebuild"
    /\ \E fault \in Faults :
          Rebuilt(_rebuild_instantiable_assemblies(RebuildStart(fault),
                                                   result.assembly_groups))
    /\ UNCHANGED <<nodes, selection, transforms, groups, assembly_groups,
                   flaky, run, first>>

\* the caller calls separate again with the same argument
SeparateAgain ==
    /\ pc \in {"returned", "raised"}
    /\ run = 1
    /\ first' = [pc |-> pc, error |-> verdict, result |-> result,
                 payloads |-> payloads, scene |-> scene]
    /\ run' = 2
    /\ pc' = "start"
    /\ transforms' = << >>
    /\ payloads' = << >>
    /\ groups' = << >>
    /\ assemblies' = << >>
    /\ assembly_groups' = << >>
    /\ result' = NoResult
    /\ verdict' = None
    /\ UNCHANGED <<self, scene, nodes, selection, mutations, flaky>>

Next ==
    \/ Begin
    \/ ExpandShells
    \/ BuildPayloads
    \/ Discover
    \/ Rebuild
    \/ SeparateAgain

Spec == Init /\ [][Next]_vars

\* the handles separate works on have no mesh shape
NoMeshTransform == \A i \in 1 .. Len(transforms) : ~scene[transforms[i]].mesh

\* C7: separate raises, and returns no result, when no handles are supplied
\* (the argument and the default selection are both empty) and when no
\* payload can be built from any handle; neither call gets to grouping, and
\* neither enters the rebuild
C7_InputErrors ==
    /\ _normalize_nodes(nodes) = << >> =>
          pc \in {"start", "raised"} /\ result = NoResult
    /\ (pc \in {"discover", "rebuild", "returned", "raised"}
          /\ NoMeshTransform) =>
          pc = "raised" /\ result = NoResult /\ groups = << >>
    /\ pc = "raised" => result = NoResult
    /\ pc \in {"rebuilt", "rebuild_raised"} => payloads # << >>

C7_Witness ==
    /\ pc = "raised"
    /\ transforms # << >>
    /\ NoMeshTransform
    /\ verdict = "No mesh payloads discovered"
    /\ result = NoResult

\* the handles of transforms that have a mesh shape, in order
MeshTransforms == SelectSeq(transforms, LAMBDA t : scene[t].mesh)

\* C8: a handle without a mesh shape yields no payload and no error: the
\* payloads are those of the handles that have a mesh, in order, they alone
\* are counted in payload_count and held by the groups and the descriptors,
\* and the call fails for want of payloads only if no handle has a mesh
C8_ShapelessHandleSkipped ==
    /\ pc \in {"discover", "rebuild", "returned"} =>
          [i \in 1 .. Len(payloads) |-> payloads[i].transform] = MeshTransforms
    /\ pc \in {"rebuild", "returned"} =>
          /\ result.payload_count = Len(MeshTransforms)
          /\ \A g \in 1 .. Len(result.groups) :
                \A id \in SeqRange(all_payloads(result.groups[g])) :
                    scene[P(id).transform].mesh
          /\ \A d \in 1 .. Len(result.assemblies) :
                \A id \in SeqRange(result.assemblies[d].components) :
                    scene[P(id).transform].mesh
    /\ (pc = "raised" /\ verdict = "No mesh payloads discovered") =>
          NoMeshTransform

C8_Witness ==
    /\ pc = "returned"
    /\ Len(transforms) = 2
    /\ ~scene[transforms[1]].mesh
    /\ scene[transforms[2]].mesh
    /\ result.payload_count = 1
    /\ Len(result.assemblies) = 1

\* C6: every payload's local_matrix is inverse(world matrix of its source) *
\* its own world matrix, and the identity when the payload is its own
\* source, also when the world matrix of the source could not be read at
\* registration
C6_LocalMatrixRelativeToSource ==
    pc \in {"discover", "rebuild", "returned"} =>
        \A id \in 1 .. Len(payloads) :
            /\ P(id).local_matrix =
                  Matrices_mult(
                      Matrices_inverse(scene[P(id).source_transform].matrix),
                      P(id).matrix)
            /\ P(id).source_transform = P(id).transform =>
                  P(id).local_matrix = MMatrix

\* C4: with the rebuild disabled, a second call of separate with the same
\* argument ends as the first did and returns the same payloads, groups,
\* descriptors and assembly groups in the same order (the provider raising
\* in neither call)
C4_DiscoveryIdempotent ==
    ( /\ run = 2
      /\ pc \in {"returned", "raised"}
      /\ ~self.rebuild_instances
      /\ verdict # "Geometry provider error"
      /\ first.error # "Geometry provider error" )
    => /\ pc = first.pc
       /\ result = first.result
       /\ payloads = first.payloads

\* discovery has finished and the rebuild has not begun
DiscoveryDone ==
    \/ pc = "rebuild"
    \/ pc = "returned" /\ ~self.rebuild_instances

\* C14: a descriptor with a single component has an empty signature, shares
\* a signature bucket with no other descriptor, and is the prototype of its
\* own assembly group, which has no members
C14_SingleComponentSingleton ==
    DiscoveryDone =>
        \A d \in 1 .. Len(assemblies) :
            Len(assemblies[d].components) = 1 =>
                /\ OwnTrivialGroup(d)
                /\ ~SignatureTruthy(assemblies[d].signature)

\* the rebuild has ended, by returning or by raising
RebuildEnded == pc \in {"rebuilt", "rebuild_raised"}

\* a request of the rebuild raised RuntimeError
SomeRebuildRequestFailed ==
    \E k \in 1 .. Len(mutations) :
        mutations[k].phase = "rebuild" /\ mutations[k].failed

\* C17: a request of the rebuild that fails (instance, bake, parent,
\* setVisibility, delete, rename, polyUnite) is caught: the rebuild goes on
\* with the remaining slots, descriptors and groups, and separate returns
\* its result
C17_MutationFailureCaught ==
    (RebuildEnded /\ SomeRebuildRequestFailed) =>
        pc = "rebuilt" /\ result # NoResult

\* C18: a query of the scene that raises during discovery (world matrix,
\* bounding box, materials, vertex count, parent, visibility) is recovered
\* from with a default, and separate does not abort on it
C18_ProviderErrorRecovered ==
    ~(pc = "raised" /\ verdict = "Geometry provider error")

\* C19: the requests that change the scene are issued by the rebuild alone;
\* source registration, shell expansion, payload building and the groupings
\* issue none, under the default configuration as well
C19_MutationsOnlyInRebuild ==
    \A k \in 1 .. Len(mutations) : mutations[k].phase = "rebuild"

\* the rebuild leaves alone the transform, shape and matrix of every payload
\* and the components, signature, root component and source of every
\* descriptor that discovery produced
DerivedObjectsKept ==
    /\ \A id \in 1 .. Len(payloads) :
          /\ payloads'[id].transform = payloads[id].transform
          /\ payloads'[id].shape = payloads[id].shape
          /\ payloads'[id].matrix = payloads[id].matrix
    /\ \A d \in 1 .. Len(assemblies) :
          /\ assemblies'[d].components = assemblies[d].components
          /\ assemblies'[d].signature = assemblies[d].signature
          /\ assemblies'[d].root_component = assemblies[d].root_component
          /\ assemblies'[d].source_transform = assemblies[d].source_transform
    /\ result'.groups = result.groups
    /\ result'.assemblies = result.assemblies

\* C20: the payloads, instance groups and descriptors of the result have the
\* same field values after the rebuild as when grouping finished
C20_DerivedObjectsImmutable ==
    [][(pc = "rebuild" /\ pc' = "rebuilt") => DerivedObjectsKept]_vars

\* the requests of the kind op the step issues: the nodes they name
Requested(op) ==
    {mutations'[k].node : k \in {j \in Len(mutations) + 1 .. Len(mutations') :
                                    mutations'[j].op = op}}

\* the descriptors of assembly group g
GroupDescriptors(g) ==
    {assembly_groups[g].prototype} \cup SeqRange(assembly_groups[g].members)

\* the handles of the payloads of the assembly groups gs
GroupHandles(gs) ==
    {P(c).transform :
        c \in UNION {SeqRange(assemblies[d].components) :
                        d \in UNION {GroupDescriptors(g) : g \in gs}}}

InstantiableGroups ==
    {g \in 1 .. Len(assembly_groups) : assembly_groups[g].members # << >>}

UniqueGroups ==
    {g \in 1 .. Len(assembly_groups) : assembly_groups[g].members = << >>}

\* the slots of g's template that descriptor d fills with a payload whose
\* handle is not the handle of the slot's prototype
SubstitutedSlotsOf(g, d) ==
    {k \in 1 .. Len(assembly_groups[g].template_slots) :
        /\ k - 1 \in DOMAIN assemblies[d].matched_slots
        /\ P(assemblies[d].matched_slots[k - 1]).transform
             # P(assembly_groups[g].template_slots[k].prototype_payload)
                   .transform}

\* [prototype, target]: the handles of the prototype and of the matched
\* payload of every such slot of the descriptors of the instantiable groups
Substitutions ==
    UNION {UNION {{[prototype |->
                       P(assembly_groups[g].template_slots[k]
                             .prototype_payload).transform,
                    target |-> P(assemblies[d].matched_slots[k - 1]).transform] :
                      k \in SubstitutedSlotsOf(g, d)} :
                  d \in GroupDescriptors(g)} :
           g \in InstantiableGroups}

\* the handles the substitutions replace, and the instances that replace
\* them
SubstitutionTargets ==
    {sb.target : sb \in Substitutions}
        \cup {InstanceHandle(sb.target) : sb \in Substitutions}

\* what the original and the amended statement share: instances are
\* requested of the prototypes of substituted slots only, no request names a
\* handle of a group without members, whose nodes stay as they were, and no
\* payload of a prototype descriptor is rebound
RebuildConfined ==
    /\ Requested("instance") \subseteq {sb.prototype : sb \in Substitutions}
    /\ Requested("polyUnite")
          \subseteq GroupHandles(InstantiableGroups) \cup SubstitutionTargets
    /\ \A k \in Len(mutations) + 1 .. Len(mutations') :
          mutations'[k].node \notin GroupHandles(UniqueGroups)
    /\ \A h \in GroupHandles(UniqueGroups) :
          h \in DOMAIN scene' /\ scene'[h] = scene[h]
    /\ \A g \in 1 .. Len(assembly_groups) :
          \A c \in SeqRange(assemblies[assembly_groups[g].prototype].components) :
              payloads'[c] = payloads[c]

\* C22, amended: the rebuild requests instances of the prototypes of
\* substituted slots of instantiable groups only, substitutes no slot of a
\* prototype descriptor and touches no handle of a group without members;
\* it deletes the replaced handles and, when it collapses, the component
\* handles of every descriptor of an instantiable group, the prototype
\* descriptor's included
C22_RebuildConfined ==
    [][(pc = "rebuild" /\ pc' # pc) =>
          /\ RebuildConfined
          /\ Requested("delete")
                \subseteq SubstitutionTargets
                          \cup GroupHandles(InstantiableGroups)]_vars

\* C22 as stated: deletes are requested for substituted slots only
C22_OnlySubstitutedSlots ==
    [][(pc = "rebuild" /\ pc' # pc) =>
          /\ RebuildConfined
          /\ Requested("delete") \subseteq SubstitutionTargets]_vars

\* a group with a member whose slot was substituted, the replaced handle
\* deleted, next to a group without members
C22_Witness ==
    /\ pc = "rebuilt"
    /\ InstantiableGroups # {}
    /\ UniqueGroups # {}
    /\ \E k \in 1 .. Len(mutations) : \E l \in 1 .. Len(mutations) :
          /\ mutations[k].op = "instance" /\ ~mutations[k].failed
          /\ mutations[l].op = "delete" /\ ~mutations[l].failed
          /\ k < l

\* the requests of the rebuild pass of the current run, in their order
RebuildRequests ==
    SelectSeq(mutations, LAMBDA e : e.phase = "rebuild" /\ e.run = run)

\* the node was deleted by an earlier request of the pass: by the rebuild of
\* a slot or, merged into a united mesh, by the collapse of a descriptor
GoneBefore(k, node) ==
    \E j \in 1 .. k - 1 :
        /\ RebuildRequests[j].op = "delete"
        /\ RebuildRequests[j].node = node
        /\ ~RebuildRequests[j].failed

\* C28: whenever the rebuild requests an instance of a slot's prototype
\* handle, that handle has not been deleted or merged away earlier in the
\* same pass, whatever the configuration
C28_PrototypeAliveWhenInstanced ==
    \A k \in 1 .. Len(RebuildRequests) :
        RebuildRequests[k].op = "instance"
            => ~GoneBefore(k, RebuildRequests[k].node)

=============================================================================
